---------------------------- MODULE Spec2Model ----------------------------
(***************************************************************************)
(* Dialogue state machine and request router of the office assistant       *)
(* middleware: features/speech_acts.py (extractor), features/repairs.py    *)
(* (self-repair), features/context.py (DialogueState), core/router.py      *)
(* (route_request), backends/db_client.py and backends/kg_client.py (the   *)
(* parts of the collaborators that decide what reaches the router), and    *)
(* app.py (the HTTP entry point and its module-level STATE).                *)
(*                                                                         *)
(* Encoding.  An utterance is a sequence of phrases (words, or fixed       *)
(* multi-word units such as "go ahead").  Every regular expression of the  *)
(* source is modelled by the set of vocabulary phrases it matches, so      *)
(* pattern.search(text) is "some phrase of the utterance is in the set".   *)
(* Slot values are Python values written as strings: "None", "", "False",  *)
(* "True", "0", "5", "bar", "Kolonaki", ...                                *)
(***************************************************************************)
EXTENDS Integers, Sequences, FiniteSets, TLC

\* ------------------------------------------------------------------ bounds
\* Number of requests the entry point serves before the model stops taking
\* input, and number of direct add_user_turn calls of the embedding code.
MaxTurns == 2
MaxDirect == 1
\* Number of requests in the sessions that follow one topic over three turns.
MaxTopicTurns == 3

\* ------------------------------------------------------- Python-isms
None == "None"

\* dict.get(k) with the default None
Get(m, k) == IF k \in DOMAIN m THEN m[k] ELSE None

\* bool(v) of a slot value: None, "", False and 0 are falsy
Truthy(v) == v \notin {None, "", "False", "0"}

\* `v not in (None, "", False)`: membership compares with ==, and 0 == False
NotEmptyValue(v) == v \notin {None, "", "False", "0"}

\* dict(a) followed by a[k] = b[k] for the keys of b that pass `keep`
Overlay(a, b, keys) ==
    [k \in DOMAIN a \cup keys |-> IF k \in keys THEN b[k] ELSE a[k]]

\* a dict without the keys in ks
Without(m, ks) == [k \in DOMAIN m \ ks |-> m[k]]

EmptyMap == [k \in {} |-> None]

Has(pat, t) == \E i \in 1..Len(t) : t[i] \in pat

\* F applied to the value of e: a local assignment `x = e` followed by the
\* statements F that read x
Bind(e, F(_)) == F(e)

\* ------------------------------------------------------------- vocabulary
\* The utterances a client may send (the text of the latest user message).
Utterances ==
    { <<"find", "cheap", "bars", "in", "kolonaki">>,
      <<"top 0", "bars">>,
      <<"next 3", "bars">>,
      <<"show", "more", "there">>,
      <<"more", "staff", "there">>,
      <<"list", "staff", "actually", "find", "cafe", "in", "plaka">>,
      <<"show", "staff", "tasks">>,
      <<"thanks", "nvm">>,
      <<"cancel", "that">>,
      <<"cancel", "find", "cafe", "in", "plaka">>,
      <<"go ahead">>,
      <<"hello">>,
      <<"My name is Danielle Smith">>,
      <<"stay anonymous">> }

\* len(p.split()) of a phrase
WordCount(p) ==
    CASE p = "My name is Danielle Smith" -> 5
      [] p = "are you a bot" -> 4
      [] p \in {"i will do", "tell me more"} -> 3
      [] p \in {"go ahead", "i mean", "let's go", "never mind", "not great",
                "open now", "stay anonymous", "top 0", "top 5", "first 2",
                "next 3"} -> 2
      [] OTHER -> 1

RECURSIVE SumWords(_)
SumWords(t) == IF t = <<>> THEN 0 ELSE WordCount(Head(t)) + SumWords(Tail(t))

\* features/repairs.py
HEDGES_PAT == {"ok", "uh", "um"}
REPAIR_PAT == {"actually", "i mean"}
NEVER_MIND == {"never mind"}

\* features/speech_acts.py: control flags, domain cues, act cues
CONFIRM_PAT == {"go ahead", "ok", "yes"}
CANCEL_PAT == {"cancel", "never mind", "nvm"}
DB_HARD == {"appointments", "staff", "tasks"}
VENUE_KEYWORDS == {"bars", "cafe", "coffee", "restaurant"}
OPEN_NOW_PAT == {"open now"}
NEAR_PAT == {"near"}
ORDER_PAT == {"book", "find", "show"}
IMPERATIVE_VERBS == {"book", "check", "find", "list", "show", "tell me more"}
QUESTION_LEAD == {"can", "what"}
QUESTION_TAIL == {"?"}
AFFIRM_PAT == {"ok", "yes"}
DENY_PAT == {"cancel", "never mind", "no"}
GREET_PAT == {"hello", "hi"}
GOODBYE_PAT == {"bye"}
THANKS_PAT == {"thanks"}
APOLOGY_PAT == {"sorry"}
MOOD_UNHAPPY_PAT == {"disappointed", "not great"}
MOOD_GREAT_PAT == {"happy", "not great"}
BOT_CHALLENGE_PAT == {"are you a bot"}
PLAN_PAT == {"let's go"}
PROMISE_PAT == {"i will do"}

\* features/speech_acts.py: slot extractors
TYPE_restaurant == {"food", "restaurant"}
TYPE_cafe == {"cafe", "coffee"}
TYPE_bar == {"bars", "pub"}
HOOD_Plaka == {"plaka"}
HOOD_Kolonaki == {"kolonaki"}
RES_PAT == {"book"}
SORT_BEST_PAT == {"best", "top 0", "top 5"}
SORT_CHEAP_PAT == {"cheap"}
LIMIT_PAT == {"first 2", "next 3", "top 0", "top 5"}
\* an anaphora token list that matches nothing
CONTINUATION_NONE == {}

CONTINUATION == {"another", "more", "tell me more", "there"}

\* features/context.py resolve_references: substring tests on the raw text
PRONOUN == {"another", "him", "them", "there"}
DEICTIC == {"My name is Danielle Smith", "it", "there"}

\* core/router.py
ANON == {"stay anonymous"}
STAFF_LIKE == {"employees", "staff"}
DETAIL_PAT == {"details", "tell me more"}
NAME_PHRASES == {"My name is Danielle Smith"}

\* backends/db_client.py _infer_request
KIND_APPT == {"appointments"}
KIND_TASK == {"tasks"}

\* --------------------------------------------------- features/repairs.py
NotHedge(p) == p \notin HEDGES_PAT

\* apply_self_repair: keep what follows the first repair lead (unless the
\* text says "never mind"), then strip the hedges.  Returns the cleaned text.
apply_self_repair(text) ==
    IF text = <<>> THEN text
    ELSE IF Has(REPAIR_PAT, text) /\ ~Has(NEVER_MIND, text)
    THEN SelectSeq(SubSeq(text,
                          1 + (CHOOSE i \in 1..Len(text) :
                                 /\ text[i] \in REPAIR_PAT
                                 /\ \A j \in 1..(i-1) : text[j] \notin REPAIR_PAT),
                          Len(text)),
                   NotHedge)
    ELSE SelectSeq(text, NotHedge)

\* router.py line 43: the text handed to the classifier
text_for_classification(user_text) ==
    Bind(apply_self_repair(user_text), LAMBDA clean_text :
    IF clean_text # <<>> THEN clean_text ELSE user_text)

\* ----------------------------------------------- features/speech_acts.py
_extract_type(t) ==
    IF Has(TYPE_restaurant, t) THEN "restaurant"
    ELSE IF Has(TYPE_cafe, t) THEN "cafe"
    ELSE IF Has(TYPE_bar, t) THEN "bar"
    ELSE None

_extract_neighborhood(t) ==
    IF Has(HOOD_Plaka, t) THEN "Plaka"
    ELSE IF Has(HOOD_Kolonaki, t) THEN "Kolonaki"
    ELSE None

\* m.group(1) or m.group(2) for the first match of LIMIT_PAT: the number of
\* a "top N" or "first N" phrase; None for "next N", whose number is group 3
LimitValue(t) ==
    LET p == t[CHOOSE i \in 1..Len(t) :
                 /\ t[i] \in LIMIT_PAT
                 /\ \A j \in 1..(i-1) : t[j] \notin LIMIT_PAT]
    IN  CASE p = "top 0"   -> "0"
          [] p = "top 5"   -> "5"
          [] p = "first 2" -> "2"
          [] OTHER         -> None

QUESTION_PAT(t) ==
    t # <<>> /\ (t[1] \in QUESTION_LEAD \/ t[Len(t)] \in QUESTION_TAIL)

is_request(t) ==
    Has(ORDER_PAT, t) \/ (t # <<>> /\ t[1] \in IMPERATIVE_VERBS)

venue_like(t) == _extract_type(t) # None \/ Has(VENUE_KEYWORDS, t)

has_domain(t) ==
    Has(DB_HARD, t) \/ venue_like(t) \/ Has(OPEN_NOW_PAT, t) \/ Has(NEAR_PAT, t)

pure_ack(pat, t) ==
    /\ Has(pat, t)
    /\ ~(QUESTION_PAT(t) \/ is_request(t) \/ has_domain(t))
    /\ SumWords(t) <= 6

\* decide_act_and_intent with the small-talk chain tried before the domain
\* cues
decide_act_and_intent_smalltalk_first(t) ==
    LET intent ==
            IF Has(GREET_PAT, t) THEN "greet"
            ELSE IF Has(GOODBYE_PAT, t) THEN "goodbye"
            ELSE IF Has(THANKS_PAT, t) THEN "thanks"
            ELSE IF Has(APOLOGY_PAT, t) THEN "apology"
            ELSE IF Has(AFFIRM_PAT, t) THEN "affirm"
            ELSE IF Has(DENY_PAT, t) THEN "deny"
            ELSE IF Has(MOOD_UNHAPPY_PAT, t) THEN "mood_unhappy"
            ELSE IF Has(MOOD_GREAT_PAT, t) THEN "mood_great"
            ELSE IF Has(BOT_CHALLENGE_PAT, t) THEN "bot_challenge"
            ELSE IF Has(DB_HARD, t) THEN "db_query"
            ELSE IF venue_like(t) \/ Has(OPEN_NOW_PAT, t) \/ Has(NEAR_PAT, t)
                 THEN "food_search"
            ELSE "generic"
        act_sub ==
            IF QUESTION_PAT(t) THEN "ASK"
            ELSE IF is_request(t) THEN "REQUEST"
            ELSE IF Has(AFFIRM_PAT, t) THEN "CONFIRM"
            ELSE IF Has(DENY_PAT, t) THEN "DENY"
            ELSE IF pure_ack(GREET_PAT, t) THEN "GREET"
            ELSE IF pure_ack(THANKS_PAT, t) THEN "THANK"
            ELSE IF pure_ack(APOLOGY_PAT, t) THEN "APOLOGIZE"
            ELSE IF pure_ack(GOODBYE_PAT, t) THEN "GOODBYE"
            ELSE IF Has(PLAN_PAT, t) THEN "PLAN"
            ELSE IF Has(PROMISE_PAT, t) THEN "PROMISE"
            ELSE "STATE"
    IN  [act_sub |-> act_sub, intent |-> intent]

\* decide_act_and_intent: [act_sub, intent]
decide_act_and_intent(t) ==
    LET intent ==
            IF Has(DB_HARD, t) THEN "db_query"
            ELSE IF venue_like(t) \/ Has(OPEN_NOW_PAT, t) \/ Has(NEAR_PAT, t)
                 THEN "food_search"
            ELSE IF pure_ack(GREET_PAT, t) THEN "greet"
            ELSE IF pure_ack(GOODBYE_PAT, t) THEN "goodbye"
            ELSE IF pure_ack(THANKS_PAT, t) THEN "thanks"
            ELSE IF pure_ack(APOLOGY_PAT, t) THEN "apology"
            ELSE IF Has(AFFIRM_PAT, t) THEN "affirm"
            ELSE IF Has(DENY_PAT, t) THEN "deny"
            ELSE IF Has(MOOD_UNHAPPY_PAT, t) THEN "mood_unhappy"
            ELSE IF Has(MOOD_GREAT_PAT, t) THEN "mood_great"
            ELSE IF Has(BOT_CHALLENGE_PAT, t) THEN "bot_challenge"
            ELSE "generic"
        act_sub ==
            IF QUESTION_PAT(t) THEN "ASK"
            ELSE IF is_request(t) THEN "REQUEST"
            ELSE IF Has(AFFIRM_PAT, t) THEN "CONFIRM"
            ELSE IF Has(DENY_PAT, t) THEN "DENY"
            ELSE IF pure_ack(GREET_PAT, t) THEN "GREET"
            ELSE IF pure_ack(THANKS_PAT, t) THEN "THANK"
            ELSE IF pure_ack(APOLOGY_PAT, t) THEN "APOLOGIZE"
            ELSE IF pure_ack(GOODBYE_PAT, t) THEN "GOODBYE"
            ELSE IF Has(PLAN_PAT, t) THEN "PLAN"
            ELSE IF Has(PROMISE_PAT, t) THEN "PROMISE"
            ELSE "STATE"
    IN  [act_sub |-> act_sub, intent |-> intent]

SMALLTALK_RETURN ==
    {"greet", "goodbye", "affirm", "deny", "mood_great", "mood_unhappy",
     "bot_challenge", "thanks", "apology"}

\* slots[k] = v when c holds
PutIf(c, m, k, v) ==
    IF c THEN [x \in DOMAIN m \cup {k} |-> IF x = k THEN v ELSE m[x]] ELSE m

\* last_entities["venue"] before any venue was mentioned (None in the source;
\* a stored venue always has a truthy type or neighborhood)
NoVenue == [type |-> None, neighborhood |-> None, cuisine |-> None]

\* analyze whose anaphora block does not ask for a remembered venue
analyze_anaphora_without_venue(t, S) ==
    Bind(decide_act_and_intent(t), LAMBDA d :
    Bind(PutIf(TRUE,
           PutIf(Has(CANCEL_PAT, t),
             PutIf(Has(CONFIRM_PAT, t), EmptyMap, "confirm", "True"),
             "cancel", "True"),
           "act_subtype", d.act_sub), LAMBDA flags :
    IF d.intent \in SMALLTALK_RETURN
    THEN [intent |-> d.intent, slots |-> flags, raised |-> FALSE]
    ELSE IF Has(LIMIT_PAT, t) /\ LimitValue(t) = None
    THEN [intent |-> None, slots |-> EmptyMap, raised |-> TRUE]
    ELSE
    Bind(PutIf(_extract_type(t) # None, flags, "type", _extract_type(t)),
         LAMBDA v1 :
    Bind(PutIf(_extract_neighborhood(t) # None, v1,
               "neighborhood", _extract_neighborhood(t)), LAMBDA v2 :
    Bind(PutIf(Has(NEAR_PAT, t), v2, "near", "HQ"), LAMBDA v3 :
    Bind(PutIf(Has(RES_PAT, t), v3, "reservations", "True"), LAMBDA v4 :
    Bind(PutIf(Has(OPEN_NOW_PAT, t), v4, "open_now", "True"), LAMBDA v5 :
    Bind(PutIf(Has(LIMIT_PAT, t), v5, "limit", LimitValue(t)), LAMBDA v6 :
    Bind(PutIf(Has(SORT_BEST_PAT, t) \/ Has(SORT_CHEAP_PAT, t), v6, "sort",
               IF Has(SORT_BEST_PAT, t) THEN "best" ELSE "cheap"),
         LAMBDA v7 :
    Bind(/\ d.intent = "generic"
         /\ Has(CONTINUATION, t), LAMBDA anaphora :
    Bind(S.last_entities.venue, LAMBDA le :
    Bind(PutIf(anaphora /\ Truthy(le.type) /\ "type" \notin DOMAIN v7,
               v7, "type", le.type), LAMBDA a1 :
    Bind(PutIf(anaphora /\ Truthy(le.neighborhood)
                 /\ "neighborhood" \notin DOMAIN a1,
               a1, "neighborhood", le.neighborhood), LAMBDA a2 :
    Bind(PutIf(anaphora /\ Truthy(Get(S.slots, "sort"))
                 /\ "sort" \notin DOMAIN a2,
               a2, "sort", Get(S.slots, "sort")), LAMBDA a3 :
    [ intent |-> IF Has(DB_HARD, t) THEN "db_query"
                 ELSE IF anaphora THEN "food_search"
                 ELSE d.intent,
      slots  |-> a3,
      raised |-> FALSE ]))))))))))))))

\* analyze(text, state): [intent, slots, raised]; slots carries the control
\* flags and act_subtype next to the extracted domain constraints; raised =
\* the call ended in an exception (int(None) at line 320) instead of a value.
analyze(t, S) ==
    Bind(decide_act_and_intent(t), LAMBDA d :
    Bind(PutIf(TRUE,
           PutIf(Has(CANCEL_PAT, t),
             PutIf(Has(CONFIRM_PAT, t), EmptyMap, "confirm", "True"),
             "cancel", "True"),
           "act_subtype", d.act_sub), LAMBDA flags :
    IF d.intent \in SMALLTALK_RETURN
    THEN [intent |-> d.intent, slots |-> flags, raised |-> FALSE]
    ELSE IF Has(LIMIT_PAT, t) /\ LimitValue(t) = None
    THEN [intent |-> None, slots |-> EmptyMap, raised |-> TRUE]
    ELSE
    Bind(PutIf(_extract_type(t) # None, flags, "type", _extract_type(t)),
         LAMBDA v1 :
    Bind(PutIf(_extract_neighborhood(t) # None, v1,
               "neighborhood", _extract_neighborhood(t)), LAMBDA v2 :
    Bind(PutIf(Has(NEAR_PAT, t), v2, "near", "HQ"), LAMBDA v3 :
    Bind(PutIf(Has(RES_PAT, t), v3, "reservations", "True"), LAMBDA v4 :
    Bind(PutIf(Has(OPEN_NOW_PAT, t), v4, "open_now", "True"), LAMBDA v5 :
    Bind(PutIf(Has(LIMIT_PAT, t), v5, "limit", LimitValue(t)), LAMBDA v6 :
    Bind(PutIf(Has(SORT_BEST_PAT, t) \/ Has(SORT_CHEAP_PAT, t), v6, "sort",
               IF Has(SORT_BEST_PAT, t) THEN "best" ELSE "cheap"),
         LAMBDA v7 :
    Bind(/\ d.intent = "generic"
         /\ Has(CONTINUATION, t)
         /\ S.last_entities.venue # NoVenue, LAMBDA anaphora :
    Bind(S.last_entities.venue, LAMBDA le :
    Bind(PutIf(anaphora /\ Truthy(le.type) /\ "type" \notin DOMAIN v7,
               v7, "type", le.type), LAMBDA a1 :
    Bind(PutIf(anaphora /\ Truthy(le.neighborhood)
                 /\ "neighborhood" \notin DOMAIN a1,
               a1, "neighborhood", le.neighborhood), LAMBDA a2 :
    Bind(PutIf(anaphora /\ Truthy(Get(S.slots, "sort"))
                 /\ "sort" \notin DOMAIN a2,
               a2, "sort", Get(S.slots, "sort")), LAMBDA a3 :
    [ intent |-> IF Has(DB_HARD, t) THEN "db_query"
                 ELSE IF anaphora THEN "food_search"
                 ELSE d.intent,
      slots  |-> a3,
      raised |-> FALSE ]))))))))))))))

\* ---------------------------------------------------- features/context.py
\* role_level None and staff_id None of the user profile
NoLevel == -1
NoStaffId == 0

\* history_intents keeps the last six intents
HISTORY_WINDOW == 6

DOMAIN_INTENTS == {"food_search", "db_query", "place_info"}

DOMAIN_KEYS ==
    {"type", "neighborhood", "cuisine", "near", "wifi", "outdoor", "veggie",
     "alcohol", "reservations", "payment", "open_now", "price_min",
     "price_max", "rating_min", "limit", "sort", "date", "time", "person",
     "place"}

\* the `ephemeral` set local to add_user_turn
EPHEMERAL == {"act_subtype", "confirm", "cancel"}

\* DialogueState() as constructed by the dataclass defaults
DialogueState ==
    [ slots           |-> EmptyMap,
      user_profile    |-> [ tone |-> "neutral", role |-> "employee",
                            role_level |-> NoLevel, department |-> None,
                            name |-> None, staff_id |-> NoStaffId,
                            verified |-> FALSE, privacy_mode |-> "ask",
                            price_band |-> "mid", verbosity |-> "normal" ],
      history         |-> <<>>,
      db_enabled      |-> FALSE,
      history_intents |-> <<>>,
      next_expected   |-> None,
      pending_action  |-> None,
      asked_name_once |-> FALSE,
      last_kg_rows    |-> <<>>,
      kg_detail_cache |-> {},
      topic_id        |-> <<>>,
      last_entities   |-> [person |-> None, place |-> None, venue |-> NoVenue] ]

\* Turn(role, ..., intent, slots, tool_events); sid names the client that
\* sent the message (not a field of the source's Turn: an observer's label).
Turn(sid, role, intent, sl) ==
    [sid |-> sid, role |-> role, intent |-> intent, slots |-> sl,
     tool_events |-> <<>>]

\* the topic hash: blake2b over (k, slots.get(k)) for the seven keys, taken
\* as injective; the `intent` parameter does not enter the signature
_topic_fingerprint(intent, sl) ==
    << Get(sl, "intent"), Get(sl, "type"), Get(sl, "neighborhood"),
       Get(sl, "place"), Get(sl, "person"), Get(sl, "date"), Get(sl, "time") >>

LastN(q, n) == IF Len(q) <= n THEN q ELSE SubSeq(q, Len(q) - n + 1, Len(q))

\* add_user_turn skipping the module-level EPHEMERAL_SLOT_KEYS (line 9)
\* instead of its own local set: act_subtype would be merged
add_user_turn_module_keys(S, sid, intent, sl) ==
    [S EXCEPT
       !.history = Append(@, Turn(sid, "user", intent, sl)),
       !.slots = Overlay(@, sl, {k \in DOMAIN sl \ {"confirm", "cancel"} :
                                     NotEmptyValue(sl[k])}),
       !.history_intents = LastN(Append(@, intent), HISTORY_WINDOW)]

add_user_turn(S, sid, intent, sl) ==
    [S EXCEPT
       !.history = Append(@, Turn(sid, "user", intent, sl)),
       !.slots = Overlay(@, sl, {k \in DOMAIN sl \ EPHEMERAL :
                                     NotEmptyValue(sl[k])}),
       !.history_intents = LastN(Append(@, intent), HISTORY_WINDOW)]

attach_tool_event(S, ev) ==
    Bind(IF S.history = <<>> THEN <<Turn(0, "system", None, EmptyMap)>>
         ELSE S.history, LAMBDA h :
    [S EXCEPT !.history = [h EXCEPT ![Len(h)].tool_events = Append(@, ev)]])

\* A tool event; `shared` says that the event's bindings list is the very
\* list object state.last_kg_rows refers to, so that an in-place clear() of
\* one empties the other.
ToolEvent(source, rows, error) ==
    [source |-> source, rows |-> rows, error |-> error, shared |-> FALSE]

\* the effect on the history of rebinding / clearing state.last_kg_rows
MapEvents(h, F(_)) ==
    [i \in 1..Len(h) |->
       [h[i] EXCEPT !.tool_events =
          [j \in 1..Len(@) |-> F(h[i].tool_events[j])]]]

Unshare(h) == MapEvents(h, LAMBDA ev : [ev EXCEPT !.shared = FALSE])

ClearShared(h) ==
    MapEvents(h, LAMBDA ev : IF ev.shared THEN [ev EXCEPT !.rows = <<>>]
                             ELSE ev)

log_db_result(S, rows, error) ==
    attach_tool_event(S, ToolEvent("db", rows, error))

\* last_kg_rows = list(bindings): a fresh copy, aliasing no event
log_kg_result(S, bindings, error) ==
    attach_tool_event([S EXCEPT !.last_kg_rows = bindings,
                                !.history = Unshare(@)],
                      ToolEvent("kg", bindings, error))

\* the db/kg tool events of a history in the order they were attached
RECURSIVE FactEvents(_)
FactEvents(h) ==
    IF h = <<>> THEN <<>>
    ELSE FactEvents(SubSeq(h, 1, Len(h) - 1))
         \o SelectSeq(h[Len(h)].tool_events,
                      LAMBDA ev : ev.source \in {"db", "kg"})

\* the loop of recent_facts over the events still to visit (newest last):
\* append the fact, then test len(facts) >= k
RECURSIVE collect_facts(_, _, _)
collect_facts(evs, k, facts) ==
    IF evs = <<>> THEN facts
    ELSE Bind(Append(facts, [source  |-> evs[Len(evs)].source,
                             summary |-> evs[Len(evs)].rows]), LAMBDA f :
         IF Len(f) >= k THEN f
         ELSE collect_facts(SubSeq(evs, 1, Len(evs) - 1), k, f))

\* DialogueState.recent_facts(k): list(reversed(facts))
recent_facts(S, k) ==
    Bind(collect_facts(FactEvents(S.history), k, <<>>), LAMBDA facts :
    [i \in 1..Len(facts) |-> facts[Len(facts) + 1 - i]])

\* needs_onboarding without the privacy_mode and asked-once conditions
needs_onboarding_unverified(S) == ~S.user_profile.verified

needs_onboarding(S) ==
    /\ S.user_profile.privacy_mode = "ask"
    /\ ~S.user_profile.verified
    /\ ~S.asked_name_once

\* update_user_identity with the first tier boundary off by one (lvl <= 3)
update_user_identity_lvl3(S, name, staff_id, role, role_level, department, privacy_mode) ==
    Bind(staff_id # NoStaffId, LAMBDA verified :
    Bind(IF role_level # NoLevel THEN role_level ELSE 99, LAMBDA lvl :
    Bind(IF privacy_mode = "anonymous" \/ ~verified
         THEN <<"neutral", "normal", "mid">>
         ELSE IF lvl <= 3 THEN <<"formal", "brief", "premium">>
         ELSE IF lvl <= 4 THEN <<"neutral", "normal", "mid">>
         ELSE <<"casual", "detailed", "budget">>, LAMBDA tier :
    [S EXCEPT
       !.user_profile =
           [ name         |-> IF Truthy(name) THEN name ELSE @.name,
             staff_id     |-> staff_id,
             role         |-> IF Truthy(role) THEN role ELSE @.role,
             role_level   |-> role_level,
             department   |-> department,
             verified     |-> verified,
             privacy_mode |-> privacy_mode,
             tone         |-> tier[1],
             verbosity    |-> tier[2],
             price_band   |-> tier[3] ],
       !.asked_name_once =
           IF verified \/ privacy_mode = "anonymous" THEN TRUE ELSE @])))

\* update_user_identity: store the identity, set the one-time flag, derive
\* the tier (lvl = role_level, or 99 when it is None)
update_user_identity(S, name, staff_id, role, role_level, department, privacy_mode) ==
    Bind(staff_id # NoStaffId, LAMBDA verified :
    Bind(IF role_level # NoLevel THEN role_level ELSE 99, LAMBDA lvl :
    Bind(IF privacy_mode = "anonymous" \/ ~verified
         THEN <<"neutral", "normal", "mid">>
         ELSE IF lvl <= 2 THEN <<"formal", "brief", "premium">>
         ELSE IF lvl <= 4 THEN <<"neutral", "normal", "mid">>
         ELSE <<"casual", "detailed", "budget">>, LAMBDA tier :
    [S EXCEPT
       !.user_profile =
           [ name         |-> IF Truthy(name) THEN name ELSE @.name,
             staff_id     |-> staff_id,
             role         |-> IF Truthy(role) THEN role ELSE @.role,
             role_level   |-> role_level,
             department   |-> department,
             verified     |-> verified,
             privacy_mode |-> privacy_mode,
             tone         |-> tier[1],
             verbosity    |-> tier[2],
             price_band   |-> tier[3] ],
       !.asked_name_once =
           IF verified \/ privacy_mode = "anonymous" THEN TRUE ELSE @])))

\* update_topics_and_entities: track entities; on a topic shift clear the
\* domain slots and the KG caches, except on a place_info turn whose slots
\* carry no type/neighborhood/cuisine
update_topics_and_entities(S, intent, sl) ==
    Bind([S EXCEPT !.last_entities =
            [ person |-> IF Truthy(Get(sl, "person")) THEN sl["person"]
                         ELSE @.person,
              place  |-> IF Truthy(Get(sl, "place")) THEN sl["place"]
                         ELSE @.place,
              venue  |-> IF Truthy(Get(sl, "type"))
                            \/ Truthy(Get(sl, "neighborhood"))
                         THEN [ type |-> Get(sl, "type"),
                                neighborhood |-> Get(sl, "neighborhood"),
                                cuisine |-> Get(sl, "cuisine") ]
                         ELSE @.venue ]], LAMBDA S1 :
    Bind(intent \in DOMAIN_INTENTS \/ DOMAIN sl \cap DOMAIN_KEYS # {},
         LAMBDA topical :
    Bind(_topic_fingerprint(intent, sl), LAMBDA new_topic :
    Bind(S.topic_id # <<>> /\ new_topic # S.topic_id, LAMBDA shifted :
    Bind(\E k \in {"type", "neighborhood", "cuisine"} : Truthy(Get(sl, k)),
         LAMBDA introduced_conflict :
    Bind(shifted /\ ~(intent = "place_info" /\ ~introduced_conflict),
         LAMBDA clear :
    IF ~topical THEN S1
    ELSE [S1 EXCEPT
            !.slots = IF clear THEN Without(@, DOMAIN_KEYS) ELSE @,
            !.last_kg_rows = IF clear THEN <<>> ELSE @,
            !.history = IF clear THEN ClearShared(@) ELSE @,
            !.kg_detail_cache = IF clear THEN {} ELSE @,
            !.next_expected = IF clear THEN None ELSE @,
            !.topic_id = new_topic]))))))

\* resolve_references writing the remembered venue type over the type of the
\* current turn
resolve_references_overwrites_type(S, text, sl) ==
    Bind(PutIf(Has(PRONOUN, text) /\ ~Truthy(Get(sl, "person"))
                 /\ Truthy(S.last_entities.person),
               sl, "person", S.last_entities.person), LAMBDA p :
    Bind(/\ Has(DEICTIC, text)
         /\ ~Truthy(Get(p, "place"))
         /\ ~Truthy(Get(p, "neighborhood")), LAMBDA deictic :
    Bind(S.last_entities.venue, LAMBDA le :
    Bind(PutIf(deictic /\ Truthy(le.neighborhood),
               p, "neighborhood", le.neighborhood), LAMBDA n :
    PutIf(deictic /\ Truthy(le.type), n, "type", le.type)))))

\* resolve_references: borrow the last person / venue for pronouns and
\* deictics; the tests are substring tests on the raw text
resolve_references(S, text, sl) ==
    Bind(PutIf(Has(PRONOUN, text) /\ ~Truthy(Get(sl, "person"))
                 /\ Truthy(S.last_entities.person),
               sl, "person", S.last_entities.person), LAMBDA p :
    Bind(/\ Has(DEICTIC, text)
         /\ ~Truthy(Get(p, "place"))
         /\ ~Truthy(Get(p, "neighborhood")), LAMBDA deictic :
    Bind(S.last_entities.venue, LAMBDA le :
    Bind(PutIf(deictic /\ Truthy(le.neighborhood),
               p, "neighborhood", le.neighborhood), LAMBDA n :
    PutIf(deictic /\ Truthy(le.type) /\ ~Truthy(Get(n, "type")),
          n, "type", le.type)))))

\* ------------------------------------------------- backends/kg_client.py
\* A bindings row, reduced to its label and its place IRI.
Row(label, place) == [label |-> label, place |-> place]
NoRow == Row(None, None)
IriOf(label) ==
    CASE label = "A" -> "iri:A" [] label = "B" -> "iri:B" [] OTHER -> "iri:?"
LabelOf(iri) ==
    CASE iri = "iri:A" -> "A" [] iri = "iri:B" -> "B" [] OTHER -> None

\* what the endpoint holds: the list rows of a venue search
ListRows == << Row("A", "iri:A"), Row("B", "iri:B") >>

\* What the SPARQL generator and the endpoint do during one call of
\* answer_with_kg: gen = the LLM produced a query; execs = the outcome of the
\* first, second and third HTTP request ("rows", "empty" or "error").
KgOutcomes ==
    { [gen |-> TRUE,  execs |-> <<"rows", "rows", "rows">>],
      [gen |-> TRUE,  execs |-> <<"empty", "empty", "empty">>],
      [gen |-> TRUE,  execs |-> <<"error", "error", "error">>] }

\* _exec_query: the request's exception is caught; the rows (or []) are logged
_exec_query(S, outcome, rows) ==
    Bind(IF outcome = "rows" THEN rows ELSE <<>>, LAMBDA got :
    [ state |-> log_kg_result(S, got,
                              IF outcome = "error" THEN "error" ELSE ""),
      rows  |-> got ])

_verbalize(rows) == IF rows = <<>> THEN "No results." ELSE "Results"

_run_and_summarize(S, outcome) ==
    Bind(_exec_query(S, outcome, ListRows), LAMBDA e :
    [ state |-> IF e.rows = <<>> THEN e.state
                  ELSE [e.state EXCEPT
                          !.history[Len(e.state.history)].tool_events[
                              Len(e.state.history[Len(e.state.history)]
                                     .tool_events)].shared = TRUE],
      text  |-> _verbalize(e.rows),
      count |-> Len(e.rows) ])

\* slots["place"] if set; otherwise a chunk of the utterance, and no utterance
\* of the vocabulary contains a row label
_extract_place_query(text, sl) ==
    IF Truthy(Get(sl, "place")) THEN sl["place"] ELSE None

RECURSIVE LastKgBindings(_)
LastKgBindings(h) ==
    IF h = <<>> THEN <<>>
    ELSE Bind(SelectSeq(h[Len(h)].tool_events,
                        LAMBDA ev : ev.source = "kg" /\ ev.rows # <<>>),
              LAMBDA evs :
         IF evs # <<>> THEN evs[Len(evs)].rows
         ELSE LastKgBindings(SubSeq(h, 1, Len(h) - 1)))

_recent_kg_bindings(S) ==
    IF S.last_kg_rows # <<>> THEN S.last_kg_rows ELSE LastKgBindings(S.history)

_find_row_by_label_or_id(rows, q) ==
    Bind(SelectSeq(rows, LAMBDA b : b.label = q \/ b.place = IriOf(q)),
         LAMBDA hits :
    IF hits = <<>> THEN NoRow ELSE hits[1])

\* _exec_detail: cached row, else the rich query, else the generic sweep
_exec_detail(S, place_iri, outs) ==
    IF place_iri \in S.kg_detail_cache THEN [state |-> S, row |-> TRUE]
    ELSE
    Bind(_exec_query(S, outs[1], <<Row(LabelOf(place_iri), None)>>),
         LAMBDA e1 :
    IF e1.rows # <<>>
    THEN [ state |-> [e1.state EXCEPT !.kg_detail_cache = @ \cup {place_iri}],
           row   |-> TRUE ]
    ELSE
    Bind(_exec_query(e1.state, outs[2], <<NoRow>>), LAMBDA e2 :
    IF e2.rows # <<>>
    THEN [ state |-> [e2.state EXCEPT !.kg_detail_cache = @ \cup {place_iri}],
           row   |-> TRUE ]
    ELSE [state |-> e2.state, row |-> FALSE]))

\* lines 284-297: the detail answer for a row of the previous list
detail_answer(S, hit, kg) ==
    Bind(IF hit.place # None
         THEN [state |-> S, iri |-> hit.place, outs |-> kg.execs]
         ELSE Bind(_exec_query(S, kg.execs[1], <<Row(None, IriOf(hit.label))>>),
                   LAMBDA e :
              [ state |-> e.state,
                iri   |-> IF e.rows # <<>> THEN e.rows[1].place ELSE None,
                outs  |-> Tail(kg.execs) ]), LAMBDA res :
    IF res.iri = None THEN [state |-> res.state, result |-> "Single"]
    ELSE Bind(_exec_detail(res.state, res.iri, res.outs), LAMBDA d :
         [ state  |-> d.state,
           result |-> IF d.row THEN "Detail" ELSE "Single" ]))

\* lines 299-344: generated query, or the template when generation fails or
\* a constrained query returns nothing
list_answer(S, sl, kg) ==
    Bind(_run_and_summarize(S, kg.execs[1]), LAMBDA r1 :
    IF kg.gen /\ r1.count = 0
       /\ (Truthy(Get(sl, "cuisine")) \/ Truthy(Get(sl, "neighborhood")))
    THEN Bind(_run_and_summarize(r1.state, kg.execs[2]), LAMBDA r2 :
         [state |-> r2.state, result |-> r2.text])
    ELSE [state |-> r1.state, result |-> r1.text])

\* answer_with_kg: [state, result]
answer_with_kg(S, user_text, sl, kg) ==
    Bind(_extract_place_query(user_text, sl), LAMBDA pq :
    Bind(IF pq = None THEN NoRow
         ELSE _find_row_by_label_or_id(_recent_kg_bindings(S), pq),
         LAMBDA hit :
    IF hit # NoRow THEN detail_answer(S, hit, kg)
    ELSE list_answer(S, sl, kg)))

\* ------------------------------------------------- backends/db_client.py
DEPARTMENTS == {"R&D", "Operations", "UX", "Finance", "IT", "Sales", "HR"}

\* canonical_department on the department strings of the model: a canonical
\* name, a synonym of _DEPT_SYNONYMS, a name with a " department" / " dept"
\* suffix, or an unknown string
canonical_department(d) ==
    IF d \in DEPARTMENTS THEN d
    ELSE IF d \in {"it", "information technology", "it dept", "IT department"}
    THEN "IT"
    ELSE IF d \in {"hr", "human resources", "HR department"} THEN "HR"
    ELSE None

_has_full_access(user_dept) == canonical_department(user_dept) \in {"IT", "HR"}

_needs_dept_guard(role_level) == role_level = NoLevel \/ role_level >= 3

\* the `kind` that _infer_request reads off the text
_infer_request(text) ==
    IF Has(KIND_APPT, text) THEN "appointments"
    ELSE IF Has(KIND_TASK, text) THEN "tasks"
    ELSE IF Has(STAFF_LIKE, text) THEN "staff"
    ELSE None

ACCESS_LIMIT_ID == "ACCESS_LIMIT: Identification required"
ACCESS_LIMIT_DEPT == "ACCESS_LIMIT: Department is unknown"

\* A generated SQL statement, reduced to what _generate_sql and the database
\* look at: its first word, whether its projection passes
\* _has_invalid_projection, the department its `department ILIKE '%..%'`
\* filter names (None: no filter), and whether running it writes.
Sql(verb, projection_ok, dept, writes) ==
    [verb |-> verb, projection_ok |-> projection_ok, dept |-> dept,
     writes |-> writes]

\* SELECT id, name, role FROM staff WHERE department ILIKE '%d%'
SqlDept(d) == Sql("SELECT", TRUE, d, FALSE)
\* SELECT id, name, role FROM staff
SqlAll == Sql("SELECT", TRUE, None, FALSE)
\* DELETE FROM tasks
SqlDelete == Sql("DELETE", FALSE, None, TRUE)
\* SELECT id FROM tasks; DELETE FROM tasks
SqlSelectThenDelete == Sql("SELECT", TRUE, None, TRUE)
\* the generator answered with no text at all
SqlEmpty == Sql("", FALSE, None, FALSE)
\* requests.post / raise_for_status raised inside _generate_sql_once
GenError == Sql("raise", FALSE, None, FALSE)
\* the local `sql` of answer_with_db while it is still None
NoSql == Sql(None, FALSE, None, FALSE)

_has_invalid_projection(sql) == ~sql.projection_ok
_sql_has_dept_filter(sql) == sql.dept # None
_sql_uses_my_literal(sql) == sql.dept = "my"
_sql_has_specific_dept(sql, dept) == sql.dept = dept

\* What the SQL generator and the database do during one call of
\* answer_with_db: the statement of the first generation, the statement of
\* the retry, and what running the final statement gives ("rows", "empty"
\* or "error").
DbOutcome(first, retry, exec) == [first |-> first, retry |-> retry, exec |-> exec]

DbOutcomes ==
    { DbOutcome(SqlDept("Operations"), SqlDept("Operations"), "rows"),
      DbOutcome(SqlDept("Operations"), SqlDept("Operations"), "error"),
      DbOutcome(SqlAll, SqlDept("Operations"), "rows"),
      DbOutcome(SqlAll, SqlAll, "rows"),
      DbOutcome(SqlDelete, SqlDelete, "rows"),
      DbOutcome(SqlSelectThenDelete, SqlSelectThenDelete, "empty"),
      DbOutcome(SqlEmpty, SqlEmpty, "rows"),
      DbOutcome(GenError, GenError, "rows") }

\* the collaborator behaviour used to find out whether a turn reaches it
Db0 == DbOutcome(SqlDept("Operations"), SqlDept("Operations"), "rows")

\* _generate_sql: [sql, error, calls]; error # "" is the text of the
\* exception it raised, calls counts the requests to the generator.
_generate_sql(question, user_dept, role_level, db) ==
    IF db.first = GenError
    THEN [sql |-> NoSql, error |-> "generation failed", calls |-> 1]
    ELSE
    Bind(/\ _infer_request(question) = "staff"
         /\ _needs_dept_guard(role_level)
         /\ ~_has_full_access(user_dept), LAMBDA dept_guard_needed :
    Bind(\/ _has_invalid_projection(db.first)
         \/ /\ dept_guard_needed
            /\ \/ user_dept = None
               \/ ~_sql_has_dept_filter(db.first)
               \/ _sql_uses_my_literal(db.first)
               \/ ~_sql_has_specific_dept(db.first, user_dept),
         LAMBDA needs_retry :
    IF needs_retry /\ db.retry = GenError
    THEN [sql |-> NoSql, error |-> "generation failed", calls |-> 2]
    ELSE
    Bind(IF needs_retry THEN db.retry ELSE db.first, LAMBDA sql :
    Bind(IF needs_retry THEN 2 ELSE 1, LAMBDA calls :
    IF sql.verb = ""
    THEN [sql |-> NoSql, error |-> "list index out of range", calls |-> calls]
    ELSE IF sql.verb \notin {"SELECT", "WITH"}
    THEN [sql |-> NoSql, error |-> "Blocked non-read SQL verb",
          calls |-> calls]
    ELSE [sql |-> sql, error |-> "", calls |-> calls]))))

\* _run_sql: [rows, error]
_run_sql(sql, exec) ==
    CASE exec = "rows"  -> [rows |-> <<"row">>, error |-> ""]
      [] exec = "empty" -> [rows |-> <<>>, error |-> ""]
      [] OTHER          -> [rows |-> <<>>, error |-> "execution failed"]

_verbalize_rows(rows) == IF rows = <<>> THEN "No results found." ELSE "Rows"

\* answer_with_db whose except branch returns without logging the failure
answer_with_db_unlogged_failure(S, user_text, sl, db) ==
    Bind(S.user_profile, LAMBDA up :
    Bind(canonical_department(up.department), LAMBDA user_dept :
    Bind(_infer_request(user_text), LAMBDA kind :
    IF kind = "staff" /\ (up.privacy_mode = "anonymous" \/ ~Truthy(up.name))
    THEN [state |-> S, result |-> ACCESS_LIMIT_ID, sql |-> FALSE,
          calls |-> 0, executed |-> <<>>, error |-> ""]
    ELSE IF /\ kind = "staff"
            /\ _needs_dept_guard(up.role_level)
            /\ ~_has_full_access(user_dept)
            /\ user_dept = None
    THEN [state |-> S, result |-> ACCESS_LIMIT_DEPT, sql |-> FALSE,
          calls |-> 0, executed |-> <<>>, error |-> ""]
    ELSE
    Bind(_generate_sql(user_text, user_dept, up.role_level, db), LAMBDA g :
    IF g.error # ""
    THEN [state |-> S, result |-> None,
          sql |-> TRUE, calls |-> g.calls, executed |-> <<>>,
          error |-> g.error]
    ELSE
    Bind(_run_sql(g.sql, db.exec), LAMBDA r :
    [ state    |-> IF r.error # "" THEN S
                   ELSE log_db_result(S, r.rows, r.error),
      result   |-> IF r.error # "" THEN None ELSE _verbalize_rows(r.rows),
      sql      |-> TRUE,
      calls    |-> g.calls,
      executed |-> <<g.sql>>,
      error    |-> r.error ])))))

\* answer_with_db without the unknown-department deflection of lines 500-502
answer_with_db_no_dept_nudge(S, user_text, sl, db) ==
    Bind(S.user_profile, LAMBDA up :
    Bind(canonical_department(up.department), LAMBDA user_dept :
    Bind(_infer_request(user_text), LAMBDA kind :
    IF kind = "staff" /\ (up.privacy_mode = "anonymous" \/ ~Truthy(up.name))
    THEN [state |-> S, result |-> ACCESS_LIMIT_ID, sql |-> FALSE,
          calls |-> 0, executed |-> <<>>, error |-> ""]
    ELSE
    Bind(_generate_sql(user_text, user_dept, up.role_level, db), LAMBDA g :
    IF g.error # ""
    THEN [state |-> log_db_result(S, <<>>, g.error), result |-> None,
          sql |-> TRUE, calls |-> g.calls, executed |-> <<>>,
          error |-> g.error]
    ELSE
    Bind(_run_sql(g.sql, db.exec), LAMBDA r :
    [ state    |-> log_db_result(S, r.rows, r.error),
      result   |-> IF r.error # "" THEN None ELSE _verbalize_rows(r.rows),
      sql      |-> TRUE,
      calls    |-> g.calls,
      executed |-> <<g.sql>>,
      error    |-> r.error ])))))

\* answer_with_db: [state, result, sql, calls, executed, error]; sql = the
\* try block was entered, calls = requests sent to the SQL generator,
\* executed = the statements handed to cursor.execute, error = str(e) of the
\* exception caught at line 519 ("" when none was raised)
answer_with_db(S, user_text, sl, db) ==
    Bind(S.user_profile, LAMBDA up :
    Bind(canonical_department(up.department), LAMBDA user_dept :
    Bind(_infer_request(user_text), LAMBDA kind :
    IF kind = "staff" /\ (up.privacy_mode = "anonymous" \/ ~Truthy(up.name))
    THEN [state |-> S, result |-> ACCESS_LIMIT_ID, sql |-> FALSE,
          calls |-> 0, executed |-> <<>>, error |-> ""]
    ELSE IF /\ kind = "staff"
            /\ _needs_dept_guard(up.role_level)
            /\ ~_has_full_access(user_dept)
            /\ user_dept = None
    THEN [state |-> S, result |-> ACCESS_LIMIT_DEPT, sql |-> FALSE,
          calls |-> 0, executed |-> <<>>, error |-> ""]
    ELSE
    Bind(_generate_sql(user_text, user_dept, up.role_level, db), LAMBDA g :
    IF g.error # ""
    THEN [state |-> log_db_result(S, <<>>, g.error), result |-> None,
          sql |-> TRUE, calls |-> g.calls, executed |-> <<>>,
          error |-> g.error]
    ELSE
    Bind(_run_sql(g.sql, db.exec), LAMBDA r :
    [ state    |-> log_db_result(S, r.rows, r.error),
      result   |-> IF r.error # "" THEN None ELSE _verbalize_rows(r.rows),
      sql      |-> TRUE,
      calls    |-> g.calls,
      executed |-> <<g.sql>>,
      error    |-> r.error ])))))

\* A staff row as lookup_staff_by_name_exact returns it.
Staff(id, name, role, role_level, department) ==
    [id |-> id, name |-> name, role |-> role, role_level |-> role_level,
     department |-> department]

\* lookup miss (or a caught connection error): `staff = None or {}`
NoStaff == Staff(NoStaffId, None, None, NoLevel, None)

\* what the staff table may hold for a captured name
StaffDirectory ==
    { Staff(7, "Danielle Smith", "Head of Ops", 3, "Operations"),
      Staff(5, "Danielle Smith", "Team Lead", 4, "Operations"),
      Staff(2, "Danielle Smith", "CTO", 1, "IT"),
      Staff(15, "Danielle Smith", "Engineer", 5, "IT department"),
      Staff(12, "Danielle Smith", None, 6, "Engineering"),
      Staff(9, "Danielle Smith", "Analyst", NoLevel, "Finance") }

lookup_staff_by_name_exact(name) == StaffDirectory \cup {NoStaff}

\* ---------------------------------------------------------- core/router.py
KG_INTENTS == {"food_search", "place_info"}
DB_INTENTS == {"check_tasks", "free_slots", "db_query"}
\* a skip set that holds the greeting only
SMALLTALK_GREET_ONLY == {"greet"}

SMALLTALK_INTENTS == {"greet", "thanks", "apology", "goodbye"}
QUICK_ACKS == {"GREET", "THANK", "GOODBYE", "APOLOGIZE"}
last_domain_intents ==
    {"food_search", "place_info", "db_query", "check_tasks", "free_slots"}

\* the keys route_request leaves out of merged_slots (lines 81 and 84)
CONTROL_KEYS == {"confirm", "cancel", "act_subtype"}

_extract_full_name(text) ==
    IF Has(NAME_PHRASES, text) THEN "Danielle Smith" ELSE None

_mentions_anonymous(text) == Has(ANON, text)

\* prev_domain scanning the window from its oldest entry instead of reversed
prev_domain_oldest(hi) ==
    Bind({i \in 1..Len(hi) : hi[i] \in last_domain_intents}, LAMBDA idx :
    IF idx = {} THEN None
    ELSE hi[CHOOSE i \in idx : \A j \in idx : i <= j])

\* next(i for i in reversed(history_intents) if i in last_domain_intents)
prev_domain(hi) ==
    Bind({i \in 1..Len(hi) : hi[i] \in last_domain_intents}, LAMBDA idx :
    IF idx = {} THEN None
    ELSE hi[CHOOSE i \in idx : \A j \in idx : j <= i])

\* lines 81-85: durable memory overlaid with this turn's non-empty slots
merged_slots(durable, sl) ==
    Overlay(Without(durable, CONTROL_KEYS), sl,
            {k \in DOMAIN sl \ CONTROL_KEYS : NotEmptyValue(sl[k])})

_try_answer_from_kg_cache(text, rows) ==
    IF rows # <<>> /\ Has(DETAIL_PAT, text) THEN "Cached" ELSE None

\* What one call of route_request did, next to the state it left behind.
Outcome(S, resp, a, eff, sl, merged) ==
    [ state |-> S, resp |-> resp, intent |-> a.intent, effective |-> eff,
      slots |-> sl, merged |-> merged,
      kg_called |-> FALSE, db_called |-> FALSE, db_sql |-> FALSE,
      db_calls |-> 0, db_executed |-> <<>>, db_error |-> "",
      etiquette |-> None,
      kg_result |-> None, db_result |-> None,
      kg_context |-> FALSE, db_context |-> FALSE,
      posted |-> <<>>, payload_after |-> <<>>, messages |-> <<>>,
      staff_policy |-> None ]

\* router.py _canon_dept_simple: "IT" or "HR" for the spellings it knows
_canon_dept_simple(d) ==
    IF d \in {"IT", "it", "information technology"} THEN "IT"
    ELSE IF d \in {"HR", "hr", "human resources"} THEN "HR"
    ELSE None

\* _system_hint_base lines 325-339: the staff-access sentence of the system
\* hint on a db_query turn whose text mentions staff or employees
staff_policy_hint(up, user_text, eff) ==
    IF ~(eff = "db_query" /\ Has(STAFF_LIKE, user_text)) THEN None
    ELSE IF \/ _canon_dept_simple(up.department) \in {"IT", "HR"}
            \/ (up.role_level # NoLevel /\ up.role_level <= 2)
    THEN "full_access"
    ELSE IF Truthy(up.department) THEN "restrict_to_department"
    ELSE "ask_department"

\* lines 181-225: cache lookup, collaborators, system messages, LLM reply
tools_and_reply(S, user_text, a, eff, sl, merged, kg, db) ==
    Bind(IF Has(DETAIL_PAT, user_text) /\ S.last_kg_rows # <<>>
         THEN _try_answer_from_kg_cache(user_text, S.last_kg_rows)
         ELSE None, LAMBDA cached :
    Bind(cached = None /\ eff \in KG_INTENTS, LAMBDA call_kg :
    Bind(IF call_kg THEN answer_with_kg(S, user_text, merged, kg)
         ELSE [state |-> S, result |-> cached], LAMBDA k :
    Bind(eff \in DB_INTENTS /\ k.state.db_enabled, LAMBDA call_db :
    Bind(IF call_db THEN answer_with_db(k.state, user_text, merged, db)
         ELSE [state |-> k.state, result |-> None, sql |-> FALSE,
               calls |-> 0, executed |-> <<>>, error |-> ""], LAMBDA d :
    [ Outcome(d.state, "llm", a, eff, sl, merged) EXCEPT
        !.kg_called  = call_kg,
        !.db_called  = call_db,
        !.db_sql     = d.sql,
        !.db_calls   = d.calls,
        !.db_executed = d.executed,
        !.db_error   = d.error,
        !.kg_result  = k.result,
        !.db_result  = d.result,
        !.kg_context = k.result # None /\ eff = "food_search",
        !.db_context = d.result # None,
        !.staff_policy = staff_policy_hint(S.user_profile, user_text, eff) ])))))

\* the early returns without the hard access gate of lines 122-127
early_return_no_hard_gate(S, a, eff, sl, user_text) ==
    IF needs_onboarding(S) /\ a.intent \notin SMALLTALK_INTENTS
    THEN [state |-> [S EXCEPT !.asked_name_once = TRUE], resp |-> "onboarding"]
    ELSE IF Get(sl, "act_subtype") \in QUICK_ACKS
    THEN [state |-> S, resp |-> "quick_ack"]
    ELSE IF Truthy(Get(sl, "cancel"))
    THEN [state |-> [S EXCEPT !.pending_action = None], resp |-> "cancelled"]
    ELSE IF Truthy(Get(sl, "confirm")) /\ S.pending_action # None
    THEN [state |-> [S EXCEPT !.pending_action = None], resp |-> "confirmed"]
    ELSE [state |-> S, resp |-> None]

\* the early returns with an onboarding gate that forgets to set
\* asked_name_once
early_return_gate_forgets(S, a, eff, sl, user_text) ==
    IF needs_onboarding(S) /\ a.intent \notin SMALLTALK_INTENTS
    THEN [state |-> S, resp |-> "onboarding"]
    ELSE IF Get(sl, "act_subtype") \in QUICK_ACKS
    THEN [state |-> S, resp |-> "quick_ack"]
    ELSE IF Truthy(Get(sl, "cancel"))
    THEN [state |-> [S EXCEPT !.pending_action = None], resp |-> "cancelled"]
    ELSE IF Truthy(Get(sl, "confirm")) /\ S.pending_action # None
    THEN [state |-> [S EXCEPT !.pending_action = None], resp |-> "confirmed"]
    ELSE IF /\ S.user_profile.privacy_mode = "anonymous"
            /\ Has(STAFF_LIKE, user_text)
            /\ eff \in DB_INTENTS
    THEN [state |-> S, resp |-> "identity_deflection"]
    ELSE [state |-> S, resp |-> None]

\* the early returns with an onboarding gate that marks the flag but does
\* not return
early_return_gate_falls_through(S, a, eff, sl, user_text) ==
    Bind(IF needs_onboarding(S) /\ a.intent \notin SMALLTALK_INTENTS
         THEN [S EXCEPT !.asked_name_once = TRUE] ELSE S, LAMBDA S1 :
    IF Get(sl, "act_subtype") \in QUICK_ACKS
    THEN [state |-> S1, resp |-> "quick_ack"]
    ELSE IF Truthy(Get(sl, "cancel"))
    THEN [state |-> [S1 EXCEPT !.pending_action = None], resp |-> "cancelled"]
    ELSE IF Truthy(Get(sl, "confirm")) /\ S1.pending_action # None
    THEN [state |-> [S1 EXCEPT !.pending_action = None], resp |-> "confirmed"]
    ELSE IF /\ S1.user_profile.privacy_mode = "anonymous"
            /\ Has(STAFF_LIKE, user_text)
            /\ eff \in DB_INTENTS
    THEN [state |-> S1, resp |-> "identity_deflection"]
    ELSE [state |-> S1, resp |-> None])

\* lines 100-127: the early returns, in the order of the source
early_return(S, a, eff, sl, user_text) ==
    IF needs_onboarding(S) /\ a.intent \notin SMALLTALK_INTENTS
    THEN [state |-> [S EXCEPT !.asked_name_once = TRUE], resp |-> "onboarding"]
    ELSE IF Get(sl, "act_subtype") \in QUICK_ACKS
    THEN [state |-> S, resp |-> "quick_ack"]
    ELSE IF Truthy(Get(sl, "cancel"))
    THEN [state |-> [S EXCEPT !.pending_action = None], resp |-> "cancelled"]
    ELSE IF Truthy(Get(sl, "confirm")) /\ S.pending_action # None
    THEN [state |-> [S EXCEPT !.pending_action = None], resp |-> "confirmed"]
    ELSE IF /\ S.user_profile.privacy_mode = "anonymous"
            /\ Has(STAFF_LIKE, user_text)
            /\ eff \in DB_INTENTS
    THEN [state |-> S, resp |-> "identity_deflection"]
    ELSE [state |-> S, resp |-> None]

\* the etiquette guard with the mid tier (levels 3-4) folded into the
\* first-name branch
etiquette_hint_without_mid_tier(just_verified, up) ==
    IF ~(just_verified /\ up.verified) THEN None
    ELSE IF up.role_level # NoLevel /\ up.role_level <= 2 THEN "senior"
    ELSE IF Truthy(up.name) THEN "first_name"
    ELSE "no_echo"

\* lines 147-169: the one-turn etiquette sentence appended to the system hint
\* after a verification; "senior" = never first or full name, "Mr./Ms. <last>"
\* only, "mid" = avoid the name, do not echo the full name, "first_name" =
\* first name once, "no_echo" = do not echo the full name
etiquette_hint(just_verified, up) ==
    IF ~(just_verified /\ up.verified) THEN None
    ELSE IF up.role_level # NoLevel /\ up.role_level <= 2 THEN "senior"
    ELSE IF up.role_level # NoLevel /\ 3 <= up.role_level /\ up.role_level <= 4
    THEN "mid"
    ELSE IF Truthy(up.name) THEN "first_name"
    ELSE "no_echo"

\* route_request recording the effective (substituted) intent in the user
\* Turn and in the recent-intent window
route_request_logs_effective(S, sid, user_text, staff, kg, db) ==
    Bind(analyze(text_for_classification(user_text), S), LAMBDA a :
    IF a.raised THEN Outcome(S, "exception", a, None, EmptyMap, EmptyMap)
    ELSE
    Bind(resolve_references(S, user_text, a.slots), LAMBDA sl :
    Bind(_extract_full_name(user_text), LAMBDA name :
    Bind(IF name # None /\ S.db_enabled
         THEN update_user_identity(S,
                 IF staff = NoStaff THEN name ELSE staff.name,
                 staff.id, staff.role, staff.role_level, staff.department,
                 IF staff.id # NoStaffId THEN "identified"
                 ELSE S.user_profile.privacy_mode)
         ELSE S, LAMBDA S1 :
    Bind(name # None \/ _mentions_anonymous(user_text), LAMBDA identity_only :
    Bind(prev_domain(S1.history_intents), LAMBDA prev :
    Bind(IF a.intent = "generic" /\ identity_only /\ prev # None
         THEN prev ELSE a.intent, LAMBDA eff :
    Bind(merged_slots(S1.slots, sl), LAMBDA merged :
    Bind(add_user_turn(update_topics_and_entities(S1, eff, merged),
                       sid, eff, sl), LAMBDA S3 :
    Bind(early_return(S3, a, eff, sl, user_text), LAMBDA e :
    IF e.resp # None
    THEN Outcome(e.state, e.resp, a, eff, sl, merged)
    ELSE tools_and_reply(S3, user_text, a, eff, sl, merged, kg, db)
    ))))))))))

\* route_request lines 40-127, up to the point where it turns to the
\* collaborators: classification, name capture, effective intent, merged
\* slots, bookkeeping, the user Turn and the gates (e); staff is what the
\* staff lookup answers if the turn reaches it
route_request_head(S, sid, user_text, staff) ==
    Bind(analyze(text_for_classification(user_text), S), LAMBDA a :
    IF a.raised THEN [raised |-> TRUE, a |-> a]
    ELSE
    Bind(resolve_references(S, user_text, a.slots), LAMBDA sl :
    Bind(_extract_full_name(user_text), LAMBDA name :
    Bind(IF name # None /\ S.db_enabled
         THEN update_user_identity(S,
                 IF staff = NoStaff THEN name ELSE staff.name,
                 staff.id, staff.role, staff.role_level, staff.department,
                 IF staff.id # NoStaffId THEN "identified"
                 ELSE S.user_profile.privacy_mode)
         ELSE S, LAMBDA S1 :
    Bind(name # None \/ _mentions_anonymous(user_text), LAMBDA identity_only :
    Bind(prev_domain(S1.history_intents), LAMBDA prev :
    Bind(IF a.intent = "generic" /\ identity_only /\ prev # None
         THEN prev ELSE a.intent, LAMBDA eff :
    Bind(merged_slots(S1.slots, sl), LAMBDA merged :
    Bind(add_user_turn(update_topics_and_entities(S1, eff, merged),
                       sid, a.intent, sl), LAMBDA S3 :
    [ raised |-> FALSE, a |-> a, sl |-> sl, eff |-> eff, merged |-> merged,
      S3 |-> S3,
      e |-> early_return(S3, a, eff, sl, user_text),
      etiquette |-> etiquette_hint(/\ name # None
                                   /\ S.db_enabled
                                   /\ staff.id # NoStaffId,
                                   S3.user_profile) ]
    )))))))))

\* route_request(payload, state) for the latest user message user_text sent
\* by client sid; staff, kg and db are what the staff lookup, the KG
\* collaborator and the DB collaborator do if the turn reaches them.
route_request(S, sid, user_text, staff, kg, db) ==
    Bind(route_request_head(S, sid, user_text, staff), LAMBDA h :
    IF h.raised THEN Outcome(S, "exception", h.a, None, EmptyMap, EmptyMap)
    ELSE IF h.e.resp # None
    THEN Outcome(h.e.state, h.e.resp, h.a, h.eff, h.sl, h.merged)
    ELSE [ tools_and_reply(h.S3, user_text, h.a, h.eff, h.sl, h.merged,
                           kg, db) EXCEPT
             !.etiquette = h.etiquette ])

\* ------------------------------------------------------------ the machine
\* state    the module-level DialogueState of app.py, handed to every
\*          request
\* last     the latest operation: its name, caller, inputs, the state it
\*          started from and what route_request did (an observer's record)
\* prompts  how many times the onboarding prompt has been returned
\* direct   how many Turns of the history were added by direct calls
\* inflight the requests that wait for a collaborator, by client: what
\*          route_request holds in its locals at that point
VARIABLES state, last, prompts, direct, inflight

vars == <<state, last, prompts, direct, inflight>>

\* the part of a route_request result that is not the state
Observed(o) == [f \in DOMAIN o \ {"state"} |-> o[f]]

NoCall ==
    Observed(Outcome(DialogueState, None, [intent |-> None], None,
                     EmptyMap, EmptyMap))

NoArgs == [name |-> None, staff_id |-> NoStaffId, role |-> None,
           role_level |-> NoLevel, department |-> None, privacy_mode |-> None]

Op(op, sid, text, args, sl, pre, out) ==
    [op |-> op, sid |-> sid, text |-> text, args |-> args, slots |-> sl,
     pre |-> pre, out |-> out]

\* app.py: STATE = DialogueState(); db_enabled is set by the startup probe
Init ==
    /\ \E reachable \in BOOLEAN :
           state = [DialogueState EXCEPT !.db_enabled = reachable]
    /\ last = Op("init", 0, <<>>, NoArgs, EmptyMap, DialogueState, NoCall)
    /\ prompts = 0
    /\ direct = 0
    /\ inflight = <<>>

\* the default collaborator behaviour used to find out which are reached
Kg0 == [gen |-> TRUE, execs |-> <<"rows", "rows", "rows">>]

\* one message of the payload's "messages" list
Msg(role, content) == [role |-> role, content |-> content]

\* router.py _latest_user: the content of the last message whose role is
\* user, or the empty text
_latest_user(msgs) ==
    Bind({i \in 1..Len(msgs) : msgs[i].role = "user"}, LAMBDA idx :
    IF idx = {} THEN <<>>
    ELSE msgs[CHOOSE i \in idx : \A j \in idx : j <= i].content)

NotSystem(m) == m.role # "system"

\* lines 199-219: the system messages route_request composes on a turn with
\* outcome o
sys_msgs(o) ==
    <<Msg("system", <<"sys_hint">>)>>
    \o (IF o.kg_context
        THEN <<Msg("system", <<"policy">>), Msg("system", <<"kg_context">>)>>
        ELSE <<>>)
    \o (IF o.db_context THEN <<Msg("system", <<"db_context">>)>> ELSE <<>>)

\* enriched = payload instead of dict(payload), and no filter on the role:
\* the composed list is stored into the caller's payload
enrich_keeps_system(msgs, o) ==
    [ payload  |-> sys_msgs(o) \o msgs,
      enriched |-> sys_msgs(o) \o msgs ]

\* lines 130-134 and 222: enriched = dict(payload) is a new mapping whose
\* "messages" key is rebound to a new list; the payload keeps its own list
enrich(msgs, o) ==
    [ payload  |-> msgs,
      enriched |-> sys_msgs(o) \o SelectSeq(msgs, NotSystem) ]

\* what a client sends around its latest user message: the messages before
\* it and the messages after it
PlainPost == [before |-> <<>>, after |-> <<>>]

Posted(c, u) == c.before \o <<Msg("user", u)>> \o c.after

\* app.py chat(): one POST of client sid with conversation c around its
\* latest user message u, in a session that serves at most `turns` requests
chat_posted(sid, u, turns, c) ==
    /\ Len(state.history) - direct < turns
    /\ Bind(_latest_user(Posted(c, u)), LAMBDA user_text :
       \E staff \in (IF _extract_full_name(user_text) # None
                        /\ state.db_enabled
                     THEN lookup_staff_by_name_exact(
                              _extract_full_name(user_text))
                     ELSE {NoStaff}) :
         Bind(route_request(state, sid, user_text, staff, Kg0, Db0),
              LAMBDA probe :
         \E kg \in (IF probe.kg_called THEN KgOutcomes ELSE {Kg0}),
            db \in (IF probe.db_sql THEN DbOutcomes ELSE {Db0}) :
           Bind(route_request(state, sid, user_text, staff, kg, db),
                LAMBDA o :
           Bind(enrich(Posted(c, u), o), LAMBDA e :
           /\ state' = o.state
           /\ last' = Op("chat", sid, user_text, NoArgs, o.slots, state,
                         Observed([o EXCEPT
                            !.posted = Posted(c, u),
                            !.payload_after =
                                IF o.resp = "llm" THEN e.payload
                                ELSE Posted(c, u),
                            !.messages =
                                IF o.resp = "llm" THEN e.enriched
                                ELSE <<>>]))
           /\ prompts' = IF o.resp = "onboarding" THEN prompts + 1
                         ELSE prompts
           /\ UNCHANGED <<direct, inflight>>))))

chat_within(sid, u, turns) == chat_posted(sid, u, turns, PlainPost)

chat(sid, u) == chat_within(sid, u, MaxTurns)

\* Calls of DialogueState.update_user_identity made by the embedding code
\* rather than by route_request (tests/demo_linguistics.py lines 187-190).
IdentityCalls ==
    { [name |-> None, staff_id |-> NoStaffId, role |-> None,
       role_level |-> NoLevel, department |-> None,
       privacy_mode |-> "anonymous"],
      [name |-> "Alex Johnson", staff_id |-> 9, role |-> "CTO",
       role_level |-> 1, department |-> "IT",
       privacy_mode |-> "anonymous"] }

identity_call(c) ==
    /\ state.history = <<>>
    /\ state' = update_user_identity(state, c.name, c.staff_id, c.role,
                                     c.role_level, c.department,
                                     c.privacy_mode)
    /\ last' = Op("identity", 0, <<>>, c, EmptyMap, state, NoCall)
    /\ UNCHANGED <<prompts, direct, inflight>>

\* tests/demo_linguistics.py line 152: the embedding code arms an action
set_pending_action ==
    /\ state.pending_action = None
    /\ state' = [state EXCEPT !.pending_action = "send_summary"]
    /\ last' = Op("pending", 0, <<>>, NoArgs, EmptyMap, state, NoCall)
    /\ UNCHANGED <<prompts, direct, inflight>>

\* (intent, slots) pairs handed to add_user_turn directly
DirectTurns ==
    { [intent |-> "place_info", slots |-> EmptyMap],
      [intent |-> "place_info", slots |-> [k \in {"place"} |-> "A"]],
      [intent |-> "generic",
       slots |-> [k \in {"confirm", "cancel", "act_subtype", "type"} |->
                    CASE k = "act_subtype" -> "ASK" [] k = "type" -> "cafe"
                      [] OTHER -> "True"]],
      [intent |-> "generic",
       slots |-> [k \in {"type", "neighborhood", "sort", "limit"} |->
                    CASE k = "type" -> "" [] k = "neighborhood" -> None
                      [] k = "sort" -> "False" [] OTHER -> "0"]] }

\* DialogueState.add_user_turn called by the embedding code
direct_add_user_turn(sid, intent, sl) ==
    /\ direct < MaxDirect
    /\ state' = add_user_turn(state, sid, intent, sl)
    /\ last' = Op("add_user_turn", sid, <<>>, NoArgs, sl, state, NoCall)
    /\ direct' = direct + 1
    /\ UNCHANGED <<prompts, inflight>>

\* The deployed service: requests of one client, and the embedding code's
\* identity and pending-action calls.
Next ==
    \/ \E u \in Utterances : chat(1, u)
    \/ \E c \in IdentityCalls : identity_call(c)
    \/ set_pending_action

Spec == Init /\ [][Next]_vars

\* The DialogueState API used next to the router: direct add_user_turn calls
\* between the requests.
ApiUtterances ==
    { <<"find", "cheap", "bars", "in", "kolonaki">>,
      <<"top 0", "bars">>,
      <<"cancel", "that">>,
      <<"details">>,
      <<"stay anonymous">> }

NextApi ==
    \/ \E u \in ApiUtterances : chat(1, u)
    \/ \E c \in IdentityCalls : identity_call(c)
    \/ \E d \in DirectTurns : direct_add_user_turn(1, d.intent, d.slots)

SpecApi == Init /\ [][NextApi]_vars

\* One client staying with venues for three requests.
TopicUtterances ==
    { <<"find", "cheap", "bars", "in", "kolonaki">>,
      <<"find", "cafe">>,
      <<"thanks">>,
      <<"hello">>,
      <<"hello", "there">>,
      <<"find", "cafe", "is", "it", "open now">> }

NextTopics == \E u \in TopicUtterances : chat_within(1, u, MaxTopicTurns)

SpecTopics == Init /\ [][NextTopics]_vars

\* Clients that send a whole conversation with each request.
Conversations ==
    { PlainPost,
      [before |-> <<Msg("system", <<"client_prompt">>)>>, after |-> <<>>],
      [before |-> <<Msg("user", <<"hello">>),
                    Msg("system", <<"client_prompt">>),
                    Msg("assistant", <<"reply">>)>>,
       after  |-> <<>>],
      [before |-> <<Msg("assistant", <<"reply">>)>>,
       after  |-> <<Msg("system", <<"client_note">>),
                    Msg("tool", <<"result">>)>>] }

PayloadUtterances ==
    { <<"find", "cheap", "bars", "in", "kolonaki">>,
      <<"show", "staff", "tasks">>,
      <<"hello">>,
      <<"are you a bot", "?">>,
      <<"stay anonymous">> }

NextPayload ==
    \E u \in PayloadUtterances, c \in Conversations :
        chat_posted(1, u, MaxTurns, c)

SpecPayload == Init /\ [][NextPayload]_vars

\* Two clients posting to the same entry point.
Sessions == {1, 2}

SessionUtterances ==
    { <<"find", "cheap", "bars", "in", "kolonaki">>,
      <<"more", "staff", "there">>,
      <<"hello">>,
      <<"My name is Danielle Smith">> }

NextSessions == \E sid \in Sessions, u \in SessionUtterances : chat(sid, u)

SpecSessions == Init /\ [][NextSessions]_vars

\* The threaded server (app.run(threaded=True)): requests of two clients
\* run route_request on the one STATE, and a request that waits for a
\* collaborator's network reply lets the other thread run.
ThreadUtterances ==
    { <<"find", "cheap", "bars", "in", "kolonaki">>,
      <<"hello">> }

\* a thread runs route_request up to its first collaborator call; a request
\* stopped by a gate is answered here
begin_request(sid, u) ==
    /\ sid \notin DOMAIN inflight
    /\ Len(state.history) < MaxTopicTurns
    /\ Bind(route_request_head(state, sid, u, NoStaff), LAMBDA h :
       /\ ~h.raised
       /\ IF h.e.resp # None
          THEN /\ state' = h.e.state
               /\ last' = Op("chat", sid, u, NoArgs, h.sl, state,
                             Observed(Outcome(h.e.state, h.e.resp, h.a,
                                              h.eff, h.sl, h.merged)))
               /\ prompts' = IF h.e.resp = "onboarding" THEN prompts + 1
                             ELSE prompts
               /\ UNCHANGED inflight
          ELSE /\ state' = h.S3
               /\ last' = Op("begin", sid, u, NoArgs, h.sl, state, NoCall)
               /\ inflight' =
                     [c \in DOMAIN inflight \cup {sid} |->
                        IF c = sid
                        THEN [text |-> u, turn |-> Len(h.S3.history),
                              head |-> h]
                        ELSE inflight[c]]
               /\ UNCHANGED prompts)
    /\ UNCHANGED direct

\* the collaborator's reply arrives: the thread logs the result on the
\* state as it is now and finishes lines 181-225
finish_request(sid) ==
    /\ sid \in DOMAIN inflight
    /\ Bind(inflight[sid], LAMBDA r :
       \E kg \in KgOutcomes :
       Bind(tools_and_reply(state, r.text, r.head.a, r.head.eff, r.head.sl,
                            r.head.merged, kg, Db0), LAMBDA o :
       /\ state' = o.state
       /\ last' = Op("chat", sid, r.text, NoArgs, r.head.sl, state,
                     Observed([o EXCEPT !.etiquette = r.head.etiquette]))
       /\ inflight' = [c \in DOMAIN inflight \ {sid} |-> inflight[c]]
       /\ UNCHANGED <<prompts, direct>>))

NextThreads ==
    \E sid \in Sessions :
       \/ \E u \in ThreadUtterances : begin_request(sid, u)
       \/ finish_request(sid)

SpecThreads == Init /\ [][NextThreads]_vars

-----------------------------------------------------------------------------
\* Properties

\* C1: after any sequence of route_request turns and direct add_user_turn
\* calls from a fresh DialogueState, the durable slot map state.slots never
\* holds one of the keys confirm, cancel, act_subtype.
C1_NoEphemeralInDurableSlots ==
    DOMAIN state.slots \cap {"confirm", "cancel", "act_subtype"} = {}

\* C1 happens: a direct add_user_turn carried all three keys with truthy
\* values next to a durable one, and a later routed turn carried cancel.
C1_Witness ==
    /\ last.op = "chat"
    /\ Truthy(Get(last.slots, "cancel"))
    /\ Get(last.slots, "act_subtype") # None
    /\ \E i \in DOMAIN state.history :
          /\ \A k \in {"confirm", "cancel", "act_subtype"} :
                Truthy(Get(state.history[i].slots, k))
          /\ Truthy(Get(state.history[i].slots, "type"))
    /\ Get(state.slots, "type") = "cafe"

\* C2: every turn whose extracted slot map has cancel set, in any privacy
\* mode, with the onboarding prompt given or not and for any act subtype,
\* leaves pending_action null when route_request returns, and invokes
\* neither the KG nor the DB collaborator.
C2_CancelClearsPendingAndCallsNothing ==
    (last.op = "chat" /\ Truthy(Get(last.slots, "cancel")))
        => /\ state.pending_action = None
           /\ ~last.out.kg_called
           /\ ~last.out.db_called

\* C3: the onboarding prompt is returned at most once in a conversation, and
\* once the gate has fired needs_onboarding() is false at every later turn
\* (prompts counts the turns answered with the prompt).
C3_OnboardingAtMostOnce ==
    /\ prompts <= 1
    /\ prompts >= 1 => ~needs_onboarding(state)

\* C3 happens: the gate fired on an earlier turn, and a later turn in ask
\* mode with a non-small-talk intent went past the gate without a prompt.
C3_Witness ==
    /\ prompts = 1
    /\ last.op = "chat"
    /\ last.out.resp # "onboarding"
    /\ last.out.intent \notin SMALLTALK_INTENTS
    /\ last.pre.user_profile.privacy_mode = "ask"
    /\ ~last.pre.user_profile.verified
    /\ last.pre.asked_name_once

\* argument tuples of update_user_identity over which idempotence is checked
IdentityArgs ==
    [ name : {None, "Alex Johnson"}, staff_id : {NoStaffId, 9},
      role : {None}, role_level : {NoLevel, 0, 2, 3, 4, 5, 99},
      department : {None}, privacy_mode : {"ask", "anonymous", "identified"} ]

\* C4: in every reachable state (tone, verbosity, price_band) is the tier
\* table applied to the profile's (verified, privacy_mode, role_level):
\* anonymous or unverified -> neutral/normal/mid; verified with level <= 2 ->
\* formal/brief/premium; 3..4 -> neutral/normal/mid; >= 5 or null ->
\* casual/detailed/budget; and update_user_identity called twice with the
\* same arguments gives the same three values both times.
C4_ProfileFollowsTierTable ==
    LET up == state.user_profile
        Triple(p) == <<p.tone, p.verbosity, p.price_band>>
        Twice(c) ==
            LET once == update_user_identity(state, c.name, c.staff_id,
                            c.role, c.role_level, c.department,
                            c.privacy_mode)
            IN  <<once, update_user_identity(once, c.name, c.staff_id,
                            c.role, c.role_level, c.department,
                            c.privacy_mode)>>
    IN  /\ Triple(up) =
             IF up.privacy_mode = "anonymous" \/ ~up.verified
               THEN <<"neutral", "normal", "mid">>
             ELSE IF up.role_level # NoLevel /\ up.role_level <= 2
               THEN <<"formal", "brief", "premium">>
             ELSE IF up.role_level \in {3, 4}
               THEN <<"neutral", "normal", "mid">>
             ELSE <<"casual", "detailed", "budget">>
        /\ \A c \in IdentityArgs :
             Triple(Twice(c)[1].user_profile) = Triple(Twice(c)[2].user_profile)

\* C4 happens: a routed turn verified the user against a staff row of level
\* 3 (the first level of the middle tier) after the profile had been set
\* through an external update_user_identity call.
C4_Witness ==
    /\ last.op = "chat"
    /\ state.user_profile.verified
    /\ state.user_profile.privacy_mode = "identified"
    /\ state.user_profile.role_level = 3
    /\ last.pre.user_profile.privacy_mode = "anonymous"
    /\ last.pre.user_profile.verified

\* utterances with a database keyword next to a small-talk, continuation or
\* venue cue, on which the classifiers are evaluated in every reachable state
DbCueUtterances ==
    { <<"hello", "staff">>, <<"thanks", "staff">>, <<"yes", "staff">>,
      <<"cancel", "appointments">>, <<"never mind", "staff">>,
      <<"sorry", "tasks">>, <<"bye", "staff">>, <<"not great", "staff">>,
      <<"are you a bot", "staff">>, <<"more", "staff", "there">>,
      <<"another", "tasks">>,
      <<"list", "staff", "actually", "find", "cafe", "in", "plaka">> }

\* C5 (as amended): for every utterance whose text as classified, i.e. after
\* self-repair, matches the database keyword pattern, and in every dialogue
\* state, the intent returned by analyze and the router's effective intent
\* are db_query; decide_act_and_intent and analyze give db_query on every
\* text with a database keyword, whatever small-talk, continuation or venue
\* cue stands next to it.
C5_DbCueWinsAfterRepair ==
    /\ (last.op = "chat" /\ Has(DB_HARD, text_for_classification(last.text)))
          => /\ last.out.intent = "db_query"
             /\ last.out.effective = "db_query"
    /\ \A u \in DbCueUtterances :
          /\ Has(DB_HARD, u)
          /\ decide_act_and_intent(u).intent = "db_query"
          /\ analyze(u, state).intent = "db_query"

\* C5 happens: a routed turn with a database keyword and a continuation
\* token, in a state that remembers a venue, was classified db_query.
C5_Witness ==
    /\ last.op = "chat"
    /\ Has(DB_HARD, last.text)
    /\ Has(CONTINUATION, last.text)
    /\ last.pre.last_entities.venue # NoVenue
    /\ last.out.effective = "db_query"

\* C5 as stated: every routed utterance that matches the database keyword
\* pattern has analyze intent and effective intent db_query.
C5_DbCueWinsOnRawText ==
    (last.op = "chat" /\ Has(DB_HARD, last.text))
        => /\ last.out.intent = "db_query"
           /\ last.out.effective = "db_query"

C7_MergeKeepsAndReplaces ==
    LET D == last.pre.slots
        sl == last.slots
        M == IF last.op = "chat" THEN last.out.merged ELSE state.slots
    IN  last.op \in {"chat", "add_user_turn"} =>
          /\ sl = EmptyMap => M = D
          /\ \A k \in DOMAIN D :
                Get(sl, k) \in {"False", "", None} => Get(M, k) = D[k]
          /\ \A k \in DOMAIN sl \ {"confirm", "cancel", "act_subtype"} :
                sl[k] \notin {"False", "", None} => Get(M, k) = sl[k]

\* C8: sessions are isolated.  The DialogueState that served a turn of one
\* session holds no turn of another session, and the response and state
\* change of a session's first turn are those of a fresh DialogueState,
\* whatever other sessions submitted before.
C8_SessionsIsolated ==
    LET Fresh == [DialogueState EXCEPT !.db_enabled = state.db_enabled]
        first == \A i \in DOMAIN last.pre.history :
                    last.pre.history[i].sid # last.sid
    IN  last.op = "chat" =>
          /\ \A i \in DOMAIN state.history :
                state.history[i].sid \in {last.sid, 0}
          /\ first =>
                \E staff \in lookup_staff_by_name_exact(_extract_full_name(last.text)),
                   kg \in KgOutcomes, db \in DbOutcomes :
                  LET o == route_request(Fresh, last.sid, last.text, staff,
                                         kg, db)
                  IN  o.state = state /\ Observed(o) = last.out

\* C9: if the KG or the DB collaborator fails with an exception while
\* route_request invokes it (every query it ran in the turn raised), the turn
\* still returns the LLM reply, with that collaborator's result absent (None,
\* no context message for it) and the other collaborator's context included.
C9_CollaboratorFailureIsAbsent ==
    LET evs == IF state.history = <<>> THEN <<>>
               ELSE state.history[Len(state.history)].tool_events
        Of(src) == SelectSeq(evs, LAMBDA ev : ev.source = src)
        Failed(src) ==
            /\ Of(src) # <<>>
            /\ \A i \in DOMAIN Of(src) : Of(src)[i].error # ""
    IN  last.op = "chat" =>
          /\ (last.out.kg_called /\ Failed("kg")) =>
                /\ last.out.resp = "llm"
                /\ last.out.kg_result = None
                /\ ~last.out.kg_context
                /\ last.out.db_result # None => last.out.db_context
          /\ (last.out.db_called /\ Failed("db")) =>
                /\ last.out.resp = "llm"
                /\ last.out.db_result = None
                /\ ~last.out.db_context
                /\ (last.out.kg_result # None
                      /\ last.out.effective = "food_search")
                     => last.out.kg_context

\* staff listing requests handed to answer_with_db directly
StaffListings ==
    { <<"list", "staff">>, <<"list", "employees">>,
      <<"more", "staff", "there">> }

\* C10: while privacy_mode is anonymous, no turn whose text is staff- or
\* employee-shaped has staff rows queried: the DB collaborator is not invoked
\* and runs no SQL for it, and a turn with a database-backed effective intent
\* ends in an early return instead of the LLM reply, whatever the role_level
\* and department of the profile; and answer_with_db itself answers a staff
\* listing request of an anonymous profile with the ACCESS_LIMIT sentinel
\* without issuing SQL.
C10_AnonymousNeverQueriesStaff ==
    /\ (/\ last.op = "chat"
        /\ state.user_profile.privacy_mode = "anonymous"
        /\ Has(STAFF_LIKE, last.text))
           => /\ ~last.out.db_called
              /\ ~last.out.db_sql
              /\ last.out.db_result = None
              /\ last.out.effective \in DB_INTENTS => last.out.resp # "llm"
    /\ state.user_profile.privacy_mode = "anonymous" =>
          \A u \in StaffListings, db \in DbOutcomes :
             LET r == answer_with_db(state, u, state.slots, db)
             IN  ~r.sql /\ r.result = ACCESS_LIMIT_ID /\ r.state = state

\* C10 happens: with the database reachable, an anonymous profile that is
\* verified, of level 1 and of the IT department sent a staff-shaped turn
\* with effective intent db_query and got the identity deflection.
C10_Witness ==
    /\ last.op = "chat"
    /\ state.db_enabled
    /\ state.user_profile.privacy_mode = "anonymous"
    /\ state.user_profile.role_level = 1
    /\ state.user_profile.department = "IT"
    /\ Has(STAFF_LIKE, last.text)
    /\ last.out.effective = "db_query"
    /\ last.out.resp = "identity_deflection"

\* the profile served by the latest turn is that of a restricted user: not
\* IT/HR, and role_level >= 3 or unknown
RestrictedUser ==
    /\ ~_has_full_access(canonical_department(state.user_profile.department))
    /\ _needs_dept_guard(state.user_profile.role_level)

\* C11: for a staff-listing request by a restricted user whose own department
\* D is known, every SQL statement that answer_with_db executes carries a
\* department filter on D, whatever the generator returns on its first and
\* on its retry attempt.
C11_RestrictedStaffSqlIsFiltered ==
    (/\ last.op = "chat"
     /\ _infer_request(last.text) = "staff"
     /\ RestrictedUser
     /\ canonical_department(state.user_profile.department) # None)
    => \A i \in DOMAIN last.out.db_executed :
          last.out.db_executed[i].dept =
              canonical_department(state.user_profile.department)

\* the latest turn handed a staff listing of a restricted user with unknown
\* own department to answer_with_db
StaffListingUnknownDept ==
    /\ last.op = "chat"
    /\ last.out.db_called
    /\ _infer_request(last.text) = "staff"
    /\ RestrictedUser
    /\ canonical_department(state.user_profile.department) = None

\* the db Tool Events attached to the latest turn of the history
LastDbEvents ==
    IF state.history = <<>> THEN <<>>
    ELSE SelectSeq(state.history[Len(state.history)].tool_events,
                   LAMBDA ev : ev.source = "db")

\* C12 (as amended): for a staff listing of a restricted user whose own
\* department is unknown, answer_with_db generates and executes no SQL, logs
\* no db Tool Event and returns an ACCESS_LIMIT sentinel: the one asking for
\* the full name when the user is anonymous or has given no name, the one
\* asking to confirm the department otherwise.
C12_UnknownDeptIsDeflected ==
    StaffListingUnknownDept =>
      /\ last.out.db_calls = 0
      /\ last.out.db_executed = <<>>
      /\ ~last.out.db_sql
      /\ LastDbEvents = <<>>
      /\ last.out.db_result =
           IF \/ state.user_profile.privacy_mode = "anonymous"
              \/ ~Truthy(state.user_profile.name)
           THEN ACCESS_LIMIT_ID ELSE ACCESS_LIMIT_DEPT

\* C12 happens: a named user without a usable department asked for the staff
\* and was asked to confirm the department.
C12_Witness ==
    /\ StaffListingUnknownDept
    /\ Truthy(state.user_profile.name)
    /\ last.out.db_result = ACCESS_LIMIT_DEPT

\* C12 as stated: the sentinel is always the one asking to confirm the
\* department.
C12_UnknownDeptAsksDepartment ==
    StaffListingUnknownDept =>
      /\ last.out.db_calls = 0
      /\ last.out.db_executed = <<>>
      /\ last.out.db_result = ACCESS_LIMIT_DEPT

\* needs_onboarding() as route_request evaluates it at line 101 of the
\* latest turn: the profile is the one the turn's identity capture left, and
\* an unverified ask-mode profile means the capture did not touch the flag
NeededOnboardingAtGate ==
    /\ last.op = "chat"
    /\ last.out.resp # "exception"
    /\ state.user_profile.privacy_mode = "ask"
    /\ ~state.user_profile.verified
    /\ ~last.pre.asked_name_once

\* C13: whenever the onboarding gate fires in a turn (needs_onboarding() and
\* the intent is not in SMALLTALK_INTENTS), route_request sets
\* asked_name_once, returns the onboarding prompt, and calls neither the KG
\* collaborator, the DB collaborator nor the LLM in that turn.
C13_OnboardingGateReturnsAtOnce ==
    (NeededOnboardingAtGate /\ last.out.intent \notin SMALLTALK_INTENTS) =>
      /\ state.asked_name_once
      /\ last.out.resp = "onboarding"
      /\ ~last.out.kg_called
      /\ ~last.out.db_called
      /\ last.out.db_calls = 0
      /\ last.out.kg_result = None /\ last.out.db_result = None
      /\ state.history[Len(state.history)].tool_events = <<>>

\* C13 happens: a domain request (a KG intent) met the gate with the
\* database enabled.
C13_Witness ==
    /\ NeededOnboardingAtGate
    /\ last.out.intent \in KG_INTENTS
    /\ last.pre.db_enabled
    /\ last.out.resp = "onboarding"

\* one utterance for each small-talk intent of the extractor
SmallTalkUtterances ==
    { <<"hello">>, <<"bye">>, <<"thanks">>, <<"sorry">>, <<"yes">>, <<"no">>,
      <<"happy">>, <<"disappointed">>, <<"are you a bot">> }

\* the onboarding gate stays shut for the turns with an intent in `skip`:
\* the latest turn, and any small-talk utterance sent next
GateSkips(skip) ==
    /\ (last.op = "chat" /\ last.out.intent \in skip) =>
          /\ last.out.resp # "onboarding"
          /\ state.asked_name_once = last.pre.asked_name_once
    /\ \A u \in SmallTalkUtterances :
          LET o == route_request(state, 1, u, NoStaff, Kg0, Db0)
          IN  o.intent \in skip =>
                /\ o.resp # "onboarding"
                /\ o.state.asked_name_once = state.asked_name_once

ExitBranches ==
    {"onboarding", "quick_ack", "cancelled", "confirmed",
     "identity_deflection", "llm"}

\* C15: every invocation of route_request, whichever branch it exits
\* through, has run topic/entity tracking (on the effective intent and the
\* merged slots) and has appended exactly one user Turn carrying the raw
\* classified intent and the raw slots, and has pushed that raw intent onto
\* the recent-intent window.
C15_EveryExitLogsTheTurn ==
    (last.op = "chat" /\ last.out.resp \in ExitBranches) =>
      LET n == Len(state.history)
          T == update_topics_and_entities(last.pre, last.out.effective,
                                          last.out.merged)
      IN  /\ n = Len(last.pre.history) + 1
          /\ state.history[n].role = "user"
          /\ state.history[n].intent = last.out.intent
          /\ state.history[n].slots = last.out.slots
          /\ \A i \in 1..(n-1) :
                /\ state.history[i].role = last.pre.history[i].role
                /\ state.history[i].intent = last.pre.history[i].intent
                /\ state.history[i].slots = last.pre.history[i].slots
          /\ state.history_intents =
                LastN(Append(last.pre.history_intents, last.out.intent),
                      HISTORY_WINDOW)
          /\ state.topic_id = T.topic_id
          /\ state.last_entities = T.last_entities

\* C15 happens: an identity-only turn ran under the substituted intent
\* food_search and was recorded as generic.
C15_Witness ==
    /\ last.op = "chat"
    /\ last.out.resp = "llm"
    /\ last.out.intent = "generic"
    /\ last.out.effective = "food_search"
    /\ state.history[Len(state.history)].intent = "generic"
    /\ state.history_intents = <<"food_search", "generic">>

\* C16: if the SQL generator produces a write-shaped statement (one that
\* would insert, update, delete, drop or create), answer_with_db refuses it:
\* the statement is never executed, the result is None and the refusal is
\* logged as a db Tool Event with error text.
C16_WriteShapedSqlIsNeverExecuted ==
    (last.op = "chat" /\ last.out.db_sql) =>
      /\ \A i \in DOMAIN last.out.db_executed :
            ~last.out.db_executed[i].writes
      /\ (last.out.db_executed = <<>>) =>
            /\ last.out.db_result = None
            /\ Len(LastDbEvents) = 1
            /\ LastDbEvents[1].error # ""

\* the number N written in a limit phrase "top N", "first N" or "next N"
LimitNumber(p) ==
    CASE p = "top 0"   -> "0"
      [] p = "top 5"   -> "5"
      [] p = "first 2" -> "2"
      [] p = "next 3"  -> "3"

\* C17: for every non-small-talk utterance containing a result-limit phrase
\* of any of the forms "top N", "first N", "next N", analyze returns normally
\* (no exception ends the invocation) with slot limit = N.
C17_LimitPhraseGivesLimitSlot ==
    \A i \in DOMAIN last.text :
      (/\ last.op = "chat"
       /\ last.text = text_for_classification(last.text)
       /\ decide_act_and_intent(last.text).intent \notin SMALLTALK_RETURN
       /\ last.text[i] \in LIMIT_PAT
       /\ \A j \in 1..(i-1) : last.text[j] \notin LIMIT_PAT)
      => /\ last.out.resp # "exception"
         /\ Get(last.out.slots, "limit") = LimitNumber(last.text[i])

\* the db Tool Events attached to turn i of history h
DbEventsOf(h, i) == SelectSeq(h[i].tool_events, LAMBDA ev : ev.source = "db")

\* C18: every call of answer_with_db that reaches SQL generation attaches
\* exactly one db Tool Event to the history (to the turn just logged, the
\* db events of earlier turns staying as they were), also when generation or
\* execution fails; on failure the event carries the error text of the
\* caught exception, answer_with_db returns None, and route_request still
\* ends with the normal reply.
C18_DbCallLogsExactlyOneEvent ==
    (last.op = "chat" /\ last.out.db_sql) =>
      LET n == Len(state.history)
      IN  /\ last.out.resp = "llm"
          /\ n = Len(last.pre.history) + 1
          /\ \A i \in 1..(n-1) :
                DbEventsOf(state.history, i) = DbEventsOf(last.pre.history, i)
          /\ Len(DbEventsOf(state.history, n)) = 1
          /\ DbEventsOf(state.history, n)[1].error = last.out.db_error
          /\ (last.out.db_error # "") =>
                /\ last.out.db_result = None
                /\ DbEventsOf(state.history, n)[1].rows = <<>>
                /\ ~last.out.db_context

\* C18 happens: the generator's statement was refused or failed to run, and
\* the turn carries the one db Tool Event with the error text.
C18_Witness ==
    /\ last.op = "chat"
    /\ last.out.db_sql
    /\ last.out.db_error = "execution failed"
    /\ last.out.db_executed # <<>>
    /\ last.out.db_result = None
    /\ Len(LastDbEvents) = 1
    /\ LastDbEvents[1].error = "execution failed"

\* the latest turn is a chat turn taken while a venue with both a type and a
\* neighborhood was remembered
FollowsVenueTurn ==
    /\ last.op = "chat"
    /\ last.out.resp # "exception"
    /\ Truthy(last.pre.last_entities.venue.type)
    /\ Truthy(last.pre.last_entities.venue.neighborhood)

\* C19 (as amended): after a turn that left a remembered venue of type T in
\* neighborhood N, a following turn whose text (after self-repair) contains
\* one of the tokens there / more / another, names no neighborhood, and
\* carries no small-talk, database or venue cue of its own (its plain
\* classification is generic) is classified food_search, and the slot map
\* recorded with the turn contains neighborhood = N and type = T.
C19_GenericContinuationBorrowsVenue ==
    LET t == text_for_classification(last.text)
    IN  (/\ FollowsVenueTurn
         /\ Has({"another", "more", "tell me more", "there"}, t)
         /\ _extract_neighborhood(t) = None
         /\ decide_act_and_intent(t).intent = "generic"
         /\ ~Has(DB_HARD, t))
        => /\ last.out.intent = "food_search"
           /\ state.history[Len(state.history)].intent = "food_search"
           /\ state.history[Len(state.history)].slots = last.out.slots
           /\ Get(last.out.slots, "neighborhood") =
                 last.pre.last_entities.venue.neighborhood
           /\ Get(last.out.slots, "type") = last.pre.last_entities.venue.type

\* C19 happens: "find cheap bars in kolonaki", then "show more there", which
\* is recorded as food_search with the borrowed neighborhood and type.
C19_Witness ==
    /\ last.op = "chat"
    /\ last.text = <<"show", "more", "there">>
    /\ last.pre.last_entities.venue.type = "bar"
    /\ last.pre.last_entities.venue.neighborhood = "Kolonaki"
    /\ Len(last.pre.history) = 1
    /\ last.out.intent = "food_search"
    /\ Get(state.history[2].slots, "neighborhood") = "Kolonaki"
    /\ Get(state.history[2].slots, "type") = "bar"

\* C19 as stated: after a turn that set the remembered venue to type T and
\* neighborhood N, every following turn whose text contains a continuation
\* token and names no neighborhood or place is classified food_search, with
\* neighborhood = N and, if the turn set no type itself, type = T in its
\* recorded slot map.
C19_AnyContinuationBorrowsVenue ==
    (/\ FollowsVenueTurn
     /\ Has({"another", "more", "tell me more", "there"}, last.text)
     /\ _extract_neighborhood(last.text) = None
     /\ "place" \notin DOMAIN last.out.slots)
    => /\ last.out.intent = "food_search"
       /\ Get(last.out.slots, "neighborhood") =
             last.pre.last_entities.venue.neighborhood
       /\ (_extract_type(last.text) = None) =>
             Get(last.out.slots, "type") = last.pre.last_entities.venue.type

\* the latest turn was taken with no remembered venue and no earlier domain
\* turn, and its text (after self-repair) has a continuation token and no
\* small-talk, database, venue or neighborhood cue
ContinuationWithoutContext ==
    LET t == text_for_classification(last.text)
    IN  /\ last.op = "chat"
        /\ last.out.resp # "exception"
        /\ last.pre.last_entities.venue = NoVenue
        /\ prev_domain(last.pre.history_intents) = None
        /\ Has({"another", "more", "tell me more", "there"}, t)
        /\ decide_act_and_intent(t).intent = "generic"
        /\ ~Has(DB_HARD, t)
        /\ _extract_type(t) = None
        /\ _extract_neighborhood(t) = None

\* C20: in a state with no remembered venue entity (a fresh session), an
\* utterance with a continuation token and no domain cue keeps intent
\* generic: the turn is recorded as generic, its slot map has no type and no
\* neighborhood, and the knowledge-graph collaborator is not called for it.
C20_NoVenueNoAnaphora ==
    ContinuationWithoutContext =>
      /\ last.out.intent = "generic"
      /\ last.out.effective = "generic"
      /\ state.history[Len(state.history)].intent = "generic"
      /\ "type" \notin DOMAIN last.out.slots
      /\ "neighborhood" \notin DOMAIN last.out.slots
      /\ "type" \notin DOMAIN state.history[Len(state.history)].slots
      /\ "neighborhood" \notin DOMAIN state.history[Len(state.history)].slots
      /\ ~last.out.kg_called
      /\ last.out.kg_result = None
      /\ state.last_entities.venue = NoVenue

\* C20 happens: a fresh session made anonymous answers "show more there"
\* through the normal reply, as a generic turn, without the knowledge graph.
C20_Witness ==
    /\ last.op = "chat"
    /\ last.text = <<"show", "more", "there">>
    /\ last.pre.history = <<>>
    /\ last.pre.user_profile.privacy_mode = "anonymous"
    /\ last.out.resp = "llm"
    /\ last.out.intent = "generic"
    /\ ~last.out.kg_called
    /\ DOMAIN last.out.slots = {"act_subtype"}

\* the latest turn captured a full name and the identity lookup answered
\* with a record of role_level 3 or 4
VerifiedMidTier ==
    /\ last.op = "chat"
    /\ _extract_full_name(last.text) # None
    /\ last.pre.db_enabled
    /\ state.user_profile.staff_id # NoStaffId
    /\ state.user_profile.role_level \in {3, 4}

\* C21: on a turn where a full name is captured and the identity lookup
\* returns a record with role_level 3 or 4, the profile after the turn is
\* verified, identified, tone neutral, verbosity normal, price_band mid; the
\* onboarding prompt is not returned; and the system hint composed in that
\* turn carries the mid-tier etiquette reminder.
C21_MidTierVerification ==
    VerifiedMidTier =>
      /\ state.user_profile.verified
      /\ state.user_profile.privacy_mode = "identified"
      /\ state.user_profile.tone = "neutral"
      /\ state.user_profile.verbosity = "normal"
      /\ state.user_profile.price_band = "mid"
      /\ last.out.resp # "onboarding"
      /\ (last.out.resp = "llm") => last.out.etiquette = "mid"

\* C21 happens: "My name is Danielle Smith" in a fresh ask-mode session is
\* matched to a level-4 record and answered by the LLM under the mid-tier
\* reminder.
C21_Witness ==
    /\ VerifiedMidTier
    /\ last.pre.history = <<>>
    /\ last.pre.user_profile.privacy_mode = "ask"
    /\ state.user_profile.role_level = 4
    /\ state.user_profile.verified
    /\ last.out.resp = "llm"
    /\ last.out.etiquette = "mid"

\* the latest turn was routed while privacy_mode was anonymous
AnonymousTurn ==
    /\ last.op = "chat"
    /\ last.out.resp # "exception"
    /\ last.pre.user_profile.privacy_mode = "anonymous"

\* C22 (as amended): while privacy_mode is anonymous, needs_onboarding() is
\* false and route_request never returns the onboarding prompt, whatever the
\* intent; a food_search turn in that mode that is not ended by the
\* cancellation, confirmation or quick-acknowledgment return reaches the
\* data-source dispatch, where the knowledge-graph collaborator is called
\* unless the cached rows already answered a detail follow-up.
C22_AnonymousSkipsOnboarding ==
    AnonymousTurn =>
      /\ ~needs_onboarding(last.pre)
      /\ ~needs_onboarding(state)
      /\ last.out.resp # "onboarding"
      /\ prompts = 0
      /\ (/\ last.out.intent = "food_search"
          /\ ~Truthy(Get(last.out.slots, "cancel"))
          /\ ~(/\ Truthy(Get(last.out.slots, "confirm"))
               /\ last.pre.pending_action # None)
          /\ Get(last.out.slots, "act_subtype") \notin QUICK_ACKS)
         => /\ last.out.resp = "llm"
            /\ last.out.kg_called \/ last.out.kg_result = "Cached"

\* C22 happens: an anonymous session asks for bars in Kolonaki as its first
\* turn and the knowledge graph is queried, no prompt having been returned.
C22_Witness ==
    /\ AnonymousTurn
    /\ last.pre.history = <<>>
    /\ prompts = 0
    /\ last.out.intent = "food_search"
    /\ last.out.resp = "llm"
    /\ last.out.kg_called

\* C22 as stated: in anonymous mode the onboarding prompt is never returned,
\* and every food_search turn reaches data-source dispatch and invokes the
\* knowledge-graph collaborator.
C22_AnonymousFoodSearchAlwaysDispatches ==
    AnonymousTurn =>
      /\ ~needs_onboarding(last.pre)
      /\ last.out.resp # "onboarding"
      /\ (last.out.intent = "food_search") =>
            (last.out.resp = "llm" /\ last.out.kg_called)

\* C23: for every k >= 0 and every history, recent_facts(k) returns at most
\* k facts, all from tool events with source db or kg, namely the k most
\* recent such events, listed oldest-first.
C23_RecentFactsAtMostK ==
    \A k \in 0..3 :
      LET evs == FactEvents(state.history)
          n   == IF Len(evs) < k THEN Len(evs) ELSE k
          r   == recent_facts(state, k)
      IN  /\ Len(r) <= k
          /\ Len(r) = n
          /\ \A i \in 1..Len(r) :
                /\ r[i].source \in {"db", "kg"}
                /\ r[i].source = evs[Len(evs) - Len(r) + i].source
                /\ r[i].summary = evs[Len(evs) - Len(r) + i].rows

\* C24: whenever a full name is extracted from the user's text, the
\* staff-directory lookup is consulted and the profile records a name: on a
\* match the profile is verified with privacy_mode identified, on a miss
\* verified is false and the asserted name is stored; in every dialogue
\* state the router can be in.
C24_CapturedNameIsRecorded ==
    (last.op = "chat" /\ _extract_full_name(last.text) # None) =>
      /\ Truthy(state.user_profile.name)
      /\ state.user_profile.verified =>
            state.user_profile.privacy_mode = "identified"
      /\ ~state.user_profile.verified =>
            state.user_profile.name = _extract_full_name(last.text)

\* C25: the topic fingerprint is a function of the intent and of the slot
\* values type, neighborhood, place, person, date, time: for the slot map of
\* any turn, two topical calls that differ in the intent only produce
\* different fingerprints (so that the second is treated as a topic shift).
C25_FingerprintDependsOnIntent ==
    \A i1, i2 \in DOMAIN_INTENTS :
      i1 # i2 =>
        _topic_fingerprint(i1, last.out.merged)
          # _topic_fingerprint(i2, last.out.merged)

\* the latest turn is a db_query turn naming no venue slot, taken right
\* after a food_search turn that stored a type and a neighborhood
VenueSearchThenDbRequest ==
    /\ last.op = "chat"
    /\ last.out.effective = "db_query"
    /\ {"type", "neighborhood", "cuisine"} \cap DOMAIN last.out.slots = {}
    /\ last.pre.history_intents # <<>>
    /\ last.pre.history_intents[Len(last.pre.history_intents)] = "food_search"
    /\ Truthy(Get(last.pre.slots, "type"))
    /\ Truthy(Get(last.pre.slots, "neighborhood"))

\* C26: when a session moves from a venue search to a database request, the
\* second turn is treated as a topic shift: after it the durable venue slots
\* of the previous topic are gone from state.slots, and last_kg_rows and
\* kg_detail_cache are empty.
C26_DbRequestAfterVenueSearchShiftsTopic ==
    VenueSearchThenDbRequest =>
      /\ {"type", "neighborhood", "cuisine"} \cap DOMAIN state.slots = {}
      /\ state.last_kg_rows = <<>>
      /\ state.kg_detail_cache = {}

\* the latest turn is not domain-like: its intent (raw and effective) is
\* outside the domain set and its own slot map has no domain key
NonDomainTurn ==
    /\ last.op = "chat"
    /\ last.out.resp # "exception"
    /\ last.out.intent \notin DOMAIN_INTENTS
    /\ last.out.effective = last.out.intent
    /\ DOMAIN last.out.slots \cap DOMAIN_KEYS = {}

\* C27: a turn that is not domain-like never clears anything: after any
\* prior sequence of turns, route_request on such a turn leaves the durable
\* domain slots, last_kg_rows, kg_detail_cache and the remembered venue
\* entity unchanged.
C27_NonDomainTurnClearsNothing ==
    NonDomainTurn =>
      /\ \A k \in DOMAIN_KEYS : Get(state.slots, k) = Get(last.pre.slots, k)
      /\ state.last_kg_rows = last.pre.last_kg_rows
      /\ state.kg_detail_cache = last.pre.kg_detail_cache
      /\ state.last_entities.venue = last.pre.last_entities.venue

\* C28: on every turn that reaches data-source dispatch, the merged slot map
\* passed to the knowledge-graph / database collaborator agrees with the
\* durable slot map the state holds once the turn's state updates are done;
\* in particular no slot value of a topic that the turn cleared is handed
\* to the collaborator.
C28_MergedSlotsAgreeWithDurable ==
    (/\ last.op = "chat"
     /\ last.out.resp = "llm"
     /\ last.out.kg_called \/ last.out.db_called)
    => /\ DOMAIN last.out.merged = DOMAIN state.slots
       /\ \A k \in DOMAIN last.out.merged :
             last.out.merged[k] = Get(state.slots, k)

\* the latest request was classified and is an identity-only generic turn
\* whose previous window holds a domain intent
IdentityAsideAfterDomain ==
    /\ last.op = "chat"
    /\ last.out.resp # "exception"
    /\ last.out.intent = "generic"
    /\ \/ Has(NAME_PHRASES, last.text)
       \/ Has(ANON, last.text)
    /\ \E i \in 1..Len(last.pre.history_intents) :
          last.pre.history_intents[i] \in last_domain_intents

\* C29: the effective intent of a classified turn is its raw intent, except
\* on a generic identity-only turn (a name phrase or an anonymity mention in
\* the text) whose previous window (the state's history_intents before this
\* turn, at most HISTORY_WINDOW raw intents) holds a domain intent: there it
\* is the latest domain intent of that window.
C29_EffectiveIntentSubstitution ==
    (last.op = "chat" /\ last.out.resp # "exception")
    => /\ Len(last.pre.history_intents) <= HISTORY_WINDOW
       /\ IF IdentityAsideAfterDomain
          THEN \E i \in 1..Len(last.pre.history_intents) :
                  /\ last.pre.history_intents[i] \in last_domain_intents
                  /\ \A j \in (i+1)..Len(last.pre.history_intents) :
                        last.pre.history_intents[j] \notin last_domain_intents
                  /\ last.out.effective = last.pre.history_intents[i]
          ELSE last.out.effective = last.out.intent

\* an identity aside whose window holds two different intents, the older one
\* a domain intent: the turn runs as the later one
C29_Witness ==
    /\ IdentityAsideAfterDomain
    /\ Len(last.pre.history_intents) = 2
    /\ last.pre.history_intents[1] # last.pre.history_intents[2]
    /\ last.pre.history_intents[1] \in last_domain_intents
    /\ last.out.effective = last.pre.history_intents[2]
    /\ last.out.effective # last.out.intent

\* the latest request reached the text-generation collaborator
ReachedLlm == last.op = "chat" /\ last.out.resp = "llm"

\* C30: on a turn that reaches the text-generation collaborator, the list
\* handed over is the system messages the router composed, followed by the
\* posted messages whose role is not system, in their posted order; every
\* system message in it is one of the router's; and the posted payload's
\* list is afterwards what the client posted.
C30_LlmMessagesAreRouterSystemThenInbound ==
    ReachedLlm
    => \E n \in 1..Len(last.out.messages) :
          /\ \A i \in 1..n :
                /\ last.out.messages[i].role = "system"
                /\ last.out.messages[i].content \in
                      {<<"sys_hint">>, <<"policy">>,
                       <<"kg_context">>, <<"db_context">>}
          /\ SubSeq(last.out.messages, n + 1, Len(last.out.messages))
               = SelectSeq(last.out.posted, NotSystem)
          /\ \A i \in (n + 1)..Len(last.out.messages) :
                last.out.messages[i].role # "system"
          /\ last.out.payload_after = last.out.posted

\* a conversation with a client system message between user and assistant
\* messages reached the collaborator with retrieved venue context
C30_Witness ==
    /\ ReachedLlm
    /\ last.out.kg_context
    /\ \E i, j, k \in 1..Len(last.out.posted) :
          /\ i < j /\ j < k
          /\ last.out.posted[i].role = "user"
          /\ last.out.posted[j].role = "system"
          /\ last.out.posted[k].role = "assistant"
    /\ Len(last.out.messages) = 6

\* C31: on a turn that reaches the text-generation collaborator, a knowledge
\* graph result (from the collaborator or from the cached list) is among the
\* system messages handed over, the ranking policy is there only on a
\* food_search turn, and a database result is among them too.
C31_EveryToolResultIsHandedOver ==
    ReachedLlm
    => /\ last.out.kg_result # None
          => \E i \in 1..Len(last.out.messages) :
                last.out.messages[i] = Msg("system", <<"kg_context">>)
       /\ (\E i \in 1..Len(last.out.messages) :
              last.out.messages[i] = Msg("system", <<"policy">>))
          => last.out.effective = "food_search"
       /\ last.out.db_result # None
          => \E i \in 1..Len(last.out.messages) :
                last.out.messages[i] = Msg("system", <<"db_context">>)

\* C32: a turn classified with a small-talk intent has a classified text of
\* at most 6 tokens that carries no domain cue, is not a question and is not
\* a request.
C32_SmallTalkOnlyForShortPlainText ==
    (last.op = "chat" /\ last.out.intent \in SMALLTALK_RETURN)
    => Bind(text_for_classification(last.text), LAMBDA t :
          /\ SumWords(t) <= 6
          /\ ~has_domain(t)
          /\ ~QUESTION_PAT(t)
          /\ ~is_request(t))

\* C33: on a turn classified as small talk, the slot map of the turn (the
\* one returned to the router and recorded in the Turn appended for it)
\* holds act_subtype and the control flags only, and the turn adds no domain
\* key to the durable memory.
C33_SmallTalkTurnHasNoDomainSlot ==
    (last.op = "chat" /\ last.out.intent \in SMALLTALK_RETURN)
    => /\ DOMAIN last.out.slots \subseteq CONTROL_KEYS
       /\ DOMAIN state.history[Len(state.history)].slots
             \subseteq CONTROL_KEYS
       /\ DOMAIN state.slots \subseteq DOMAIN last.pre.slots

\* C35: a request whose slot map (the merged map the router hands to
\* update_topics_and_entities) does not provide the person, the place, or
\* the venue's type, neighborhood or cuisine leaves the remembered value of
\* that item as it was, when one was remembered.
C35_AbsentSlotKeepsRememberedEntity ==
    (last.op = "chat" /\ last.out.resp # "exception")
    => /\ \A k \in {"person", "place"} :
            (Truthy(last.pre.last_entities[k])
               /\ ~Truthy(Get(last.out.merged, k)))
            => state.last_entities[k] = last.pre.last_entities[k]
       /\ \A k \in {"type", "neighborhood", "cuisine"} :
            (Truthy(last.pre.last_entities.venue[k])
               /\ ~Truthy(Get(last.out.merged, k)))
            => state.last_entities.venue[k] = last.pre.last_entities.venue[k]

\* C36: a profile whose privacy_mode is identified is verified and carries a
\* staff identifier.
C36_IdentifiedImpliesVerified ==
    state.user_profile.privacy_mode = "identified"
    => /\ state.user_profile.verified
       /\ state.user_profile.staff_id # NoStaffId

\* C37: when a request that waited for a collaborator finishes, the tool
\* events logged for it are on the Turn appended for that request: the
\* tool events of every other Turn are as they were.
C37_ToolEventsGoToOwnTurn ==
    [][\A sid \in DOMAIN inflight :
          sid \notin DOMAIN inflight'
          => \A i \in 1..Len(state.history) :
                i # inflight[sid].turn
                => Len(state'.history[i].tool_events)
                     = Len(state.history[i].tool_events)]_vars

C39_PolicyHintAgreesWithDeptGuard ==
    (/\ ReachedLlm
     /\ last.out.db_called
     /\ _infer_request(last.text) = "staff"
     /\ last.out.staff_policy # None)
    => (last.out.staff_policy = "full_access" <=> ~RestrictedUser)

\* the slot map analyze returned for the latest request, before
\* resolve_references
AnalyzedSlots == analyze(text_for_classification(last.text), last.pre).slots

\* C34: the slot map resolve_references returns keeps every slot the turn
\* populated, differs from the analyzed map on person, neighborhood and type
\* at most, on neighborhood or type only when the turn set neither place nor
\* neighborhood, and on person only when the turn set no person.
C34_ResolveReferencesOnlyFillsGaps ==
    (last.op = "chat" /\ last.out.resp # "exception")
    => /\ \A k \in DOMAIN AnalyzedSlots :
             Truthy(AnalyzedSlots[k]) => Get(last.out.slots, k) = AnalyzedSlots[k]
       /\ \A k \in DOMAIN last.out.slots :
             Get(AnalyzedSlots, k) # last.out.slots[k]
             => /\ k \in {"person", "neighborhood", "type"}
                /\ k \in {"neighborhood", "type"}
                   => /\ ~Truthy(Get(AnalyzedSlots, "place"))
                      /\ ~Truthy(Get(AnalyzedSlots, "neighborhood"))
                /\ k = "person" => ~Truthy(Get(AnalyzedSlots, "person"))
       /\ DOMAIN AnalyzedSlots \subseteq DOMAIN last.out.slots

\* a turn that named its own venue type and pointed at the remembered place:
\* the neighborhood was borrowed, the type was kept
C34_Witness ==
    /\ last.op = "chat"
    /\ Truthy(Get(AnalyzedSlots, "type"))
    /\ ~Truthy(Get(AnalyzedSlots, "neighborhood"))
    /\ Truthy(Get(last.out.slots, "neighborhood"))
    /\ last.out.slots["type"] = AnalyzedSlots["type"]
    /\ last.pre.last_entities.venue.type # AnalyzedSlots["type"]

=============================================================================
